---------------------------- MODULE Spec2Model ----------------------------
(***************************************************************************)
(* A model of the game_theory_duel engine: GameConfig (src/config.py),     *)
(* Match / MatchResult (src/match.py), Tournament (src/tournament.py) and  *)
(* the strategies of src/agent.py.                                         *)
(*                                                                         *)
(* Actions are "beat" (defect) and "still" (cooperate), as in the source.  *)
(* Indices i, j, match_idx are 0-based as in the source; TLA+ sequences    *)
(* are 1-based, so agents[i + 1] is the source's self.agents[i].           *)
(*                                                                         *)
(* An optional value (None or an object) is a sequence of length 0 or 1.   *)
(* A strategy name is a record [base, suffix]: the string                  *)
(* base + "_" + s1 + "_" + s2 ... ; the f-string f"{name}_{k}" appends k   *)
(* to the suffix, so 'A_1' given by the user and 'A' renamed with counter  *)
(* 1 are the same name, as they are the same Python string.                *)
(***************************************************************************)
EXTENDS Integers, Sequences, FiniteSets, TLC

VARIABLES
    pc,           \* position of the program
    mode,         \* main.py --mode: "individual" or "tournament"; "repeat"
                  \* and "swap" where Match.run is called a second time
    args,         \* the six arguments handed to GameConfig(...)
    config,       \* the constructed GameConfig, <<>> while there is none
    roster,       \* the agent list handed to Tournament(...) or to Match.run
    agents,       \* Tournament.agents (names as they are after construction)
    scores,       \* Tournament.run: scores, name -> (opponent name -> score)
    agent_lookup, \* Tournament.run: agent_lookup, name -> roster index
    i, j,         \* Tournament.run: indices of the pair being played
    pairs_run,    \* the (i, j) for which Match.run was invoked, in order
    match_idx,    \* Match.run: loop counter
    result,       \* Match.run: the MatchResult being filled
    history_a, history_b, total_a, total_b,   \* Match._run_single_match locals
                  \* (history_a, history_b are also the two arguments of
                  \* the last decide of AgentDecideOn)
    returned,     \* what the calls of Match.run returned, in order
    ranked,       \* what Tournament.run returned, <<>> while nothing was
    error,        \* the exception that ended the program, "" while none
    agent_state,  \* the fields of each agent object, by roster position
    calls,        \* the calls Match.run made on the two agents since the
                  \* current iteration of its loop began, in order
    call,         \* the last call made on an agent driven directly: the
                  \* operation, what it returned or raised, and the
                  \* fields of the agent before it
    n_decides     \* decide calls made on that agent since it was last reset

vars == <<pc, mode, args, config, roster, agents, scores, agent_lookup, i, j,
          pairs_run, match_idx, result, history_a, history_b, total_a,
          total_b, returned, ranked, error, agent_state, calls, call,
          n_decides>>

------------------------------------------------------------------------------
(* Bounds of the model. *)

MaxRounds == 2      \* rounds_per_match ranges over 1..MaxRounds
MaxMatches == 2     \* num_matches ranges over 1..MaxMatches
MaxAgents == 3      \* a tournament roster has 0..MaxAgents agents
MaxPay == 3         \* GameConfig arguments range over -1..MaxPay
MaxCalls == 10      \* decide calls on an agent driven directly, per reset
MaxHist == 1        \* such a call is handed every history of 0..MaxHist
LongLen == 12       \* actions, and three histories of LongLen actions
DuelRounds == 21    \* rounds_per_match of the matches between the
                    \* strategies that use no random number
CatRounds == 5      \* rounds_per_match of the matches between any two
                    \* strategies of the catalog
MixedRounds == 10   \* rounds_per_match of the matches between a strategy
                    \* that draws random numbers and one that draws none
RhythmRounds == 9   \* rounds_per_match of the matches of
                    \* RhythmDetectorAgent
Limbs == 6          \* base-2^15 digits held of a float that arithmetic
                    \* is done on: the values are multiples of 2^-75

------------------------------------------------------------------------------
(* src/config.py *)

\* A faulty variant of ConfigOrder: the strict comparison that the comment
\* of config.py:18 describes, llost > beaten.
ConfigOrderStrict(a) ==
    a.beat > a.wwin /\ a.wwin > a.llost /\ a.llost > a.beaten

\* config.py:19  beat > wwin > llost >= beaten
ConfigOrder(a) ==
    a.beat > a.wwin /\ a.wwin > a.llost /\ a.llost >= a.beaten

\* config.py:22  the negation of: rounds_per_match <= 0 or num_matches <= 0
ConfigCounts(a) ==
    ~(a.rounds_per_match <= 0 \/ a.num_matches <= 0)

ArgSpace ==
    [beat : -1..MaxPay, wwin : -1..MaxPay, llost : -1..MaxPay,
     beaten : -1..MaxPay,
     rounds_per_match : -1..MaxRounds, num_matches : -1..MaxMatches]

\* GameConfig.__init__: raises ValueError, or stores the six fields.
GameConfigInit ==
    /\ pc = "config_new"
    /\ IF ~ConfigOrder(args) \/ ~ConfigCounts(args)
       THEN /\ pc' = "raised"
            /\ error' = "ValueError"
            /\ UNCHANGED config
       ELSE /\ pc' = "config_built"
            /\ config' = <<args>>
            /\ UNCHANGED error
    /\ UNCHANGED <<agent_state, calls, call, n_decides, mode,
                   args, roster, agents, scores, agent_lookup, i, j,
                   pairs_run, match_idx, result, history_a, history_b,
                   total_a, total_b, returned, ranked>>

------------------------------------------------------------------------------
(* src/agent.py *)

\* The two legal return values of decide (match.py:130).
Actions == {"beat", "still"}

Last(h) == h[Len(h)]

\* The strategy classes of the model. "FaultyAgent" stands for a subclass of
\* Agent supplied by the user of the engine, whose decide returns "still" or
\* a value that is no action: the base class fixes only the signature of
\* decide, and Match checks what it returns.
CatalogKinds == {"TitForTatAgent", "AlwaysBeatAgent", "AlwaysStillAgent",
                 "RandomAgent"}
Kinds == CatalogKinds \cup {"FaultyAgent"}

\* A faulty variant of TitForTatDecide: the agent's own last action is
\* copied instead of the opponent's.
TitForTatDecideOwn(history_self, history_opponent) ==
    IF history_opponent = <<>> THEN "still" ELSE Last(history_self)

\* TitForTatAgent.decide
TitForTatDecide(history_self, history_opponent) ==
    IF history_opponent = <<>> THEN "still" ELSE Last(history_opponent)

\* What one call of decide does: the value it returns (action) or the
\* exception it raises (exc), and the fields of the agent after it.
Returns(a, st) == [action |-> a, exc |-> "", state |-> st]
Raises(e, st) == [action |-> "", exc |-> e, state |-> st]

\* The values decide can return: one for a deterministic strategy, both
\* actions for random.choice, and for the faulty subclass "still" or "other",
\* which stands for every value outside {"beat", "still"}.
decide(kind, history_self, history_opponent) ==
    CASE kind = "TitForTatAgent" ->
            {TitForTatDecide(history_self, history_opponent)}
      [] kind = "AlwaysBeatAgent" -> {"beat"}
      [] kind = "AlwaysStillAgent" -> {"still"}
      [] kind = "RandomAgent" -> {"beat", "still"}
      [] kind = "FaultyAgent" -> {"still", "other"}

\* Agent.__init__: the name given, or the class name when none is given.
DefaultName(kind) == [base |-> kind, suffix |-> <<>>]

------------------------------------------------------------------------------
(* src/agent.py: the strategies that keep fields.                           *)
(*                                                                          *)
(* The fields of an agent object other than its name are a record (<<>>     *)
(* for a class that has none).                                              *)
(*                                                                          *)
(* A float that the code adds to or subtracts from (InchingAgent's          *)
(* defect_rate, TrustBuildingAgent's trust_level, the rates of              *)
(* FrequencyAnalysisAgent) is held as the digits of the double, and the     *)
(* arithmetic rounds as IEEE 754 does: see Float, FAdd, FMonus. A           *)
(* float that is computed afresh from integer counts in each call and only  *)
(* compared with constants is held as an integer count of the unit named    *)
(* at the class or as a fraction <<n, d>> in lowest terms; the comparisons  *)
(* of the doubles and of the fractions give the same result there.          *)
(* random.random() ranges over the multiples of 2^-53 in [0, 1), so a test  *)
(* random.random() < p can succeed when p > 0 and can fail when p < 1.      *)

\* Python list operations: h.count(a), h[-n:], h[lo:hi] for 0 <= lo, hi.
Count(h, a) == Cardinality({k \in DOMAIN h : h[k] = a})
LastN(h, n) == SubSeq(h, IF Len(h) > n THEN Len(h) - n + 1 ELSE 1, Len(h))
Slice(h, lo, hi) ==
    SubSeq(h, lo + 1, IF hi > Len(h) THEN Len(h) ELSE hi)

\* min(a, b), max(a, b)
min(a, b) == IF a <= b THEN a ELSE b
max(a, b) == IF a >= b THEN a ELSE b

\* n / d as a float: the fraction in lowest terms.
RECURSIVE Gcd(_, _)
Gcd(a, b) == IF b = 0 THEN a ELSE Gcd(b, a % b)
Frac(n, d) == <<n \div Gcd(n, d), d \div Gcd(n, d)>>

\* The outcomes of "a if random.random() < p else b", p being n / d.
Chance(n, d, a, b) ==
    (IF n > 0 THEN {a} ELSE {}) \cup (IF n < d THEN {b} ELSE {})

\* A double in [0, 2) as its digits in base 2^15: a sequence of Limbs
\* digits, the k-th of weight Base^-(k - 1); 0.05 is
\* <<0, 1638, 13107, 6553, 19664, 0>>.
Base == 2 ^ 15

\* 0.0 and 1.0
Zero == [k \in 1..Limbs |-> 0]
One == [k \in 1..Limbs |-> IF k = 1 THEN 1 ELSE 0]

\* x < y on doubles.
FLess(x, y) ==
    \E k \in 1..Limbs : x[k] < y[k] /\ \A m \in 1..(k - 1) : x[m] = y[m]

\* The digits of a number given by digits outside 0..(Base - 1): carries
\* and borrows are passed on from the last digit up, c into the last.
RECURSIVE Normal(_, _)
Normal(n, c) ==
    IF n = <<>> THEN <<>>
    ELSE LET t == n[Len(n)] + c
         IN Append(Normal(SubSeq(n, 1, Len(n) - 1), t \div Base), t % Base)

\* The exact sum, and the exact difference a - b for a >= b.
Sum(a, b) == Normal([k \in 1..Limbs |-> a[k] + b[k]], 0)
Difference(a, b) == Normal([k \in 1..Limbs |-> a[k] - b[k]], 0)

\* IEEE 754 round-to-nearest, ties to even, of an exact value to the 53
\* significant bits of a double; sticky tells that the exact value has
\* digits beyond the Limbs held. The leading bit is bit e of digit lead,
\* so the last bit kept is 52 bits below: bit b of digit d.
RoundNearest(x, sticky) ==
    IF x = Zero THEN Zero
    ELSE LET lead == CHOOSE k \in 1..Limbs :
                        x[k] # 0 /\ \A m \in 1..(k - 1) : x[m] = 0
             e == CHOOSE z \in 0..14 :
                     2 ^ z <= x[lead] /\ x[lead] < 2 ^ (z + 1)
             d == IF e >= 7 THEN lead + 3 ELSE lead + 4
             b == IF e >= 7 THEN e - 7 ELSE e + 8
         IN IF d > Limbs THEN x
            ELSE LET grid == 2 ^ b
                     tail == (x[d] % grid) * Base
                                 + (IF d < Limbs THEN x[d + 1] ELSE 0)
                     half == grid * (Base \div 2)
                     rest == sticky \/ \E m \in (d + 2)..Limbs : x[m] # 0
                     up == \/ tail > half
                           \/ /\ tail = half
                              /\ (rest \/ (x[d] \div grid) % 2 = 1)
                 IN Normal([k \in 1..Limbs |->
                               IF k < d THEN x[k]
                               ELSE IF k = d
                               THEN x[d] - (x[d] % grid)
                                        + (IF up THEN grid ELSE 0)
                               ELSE 0],
                           0)

\* The remainder of the long division of p by q after k digits, the first
\* of them the integer part.
RECURSIVE Remainder(_, _, _)
Remainder(p, q, k) ==
    IF k = 1 THEN p % q ELSE (Remainder(p, q, k - 1) * Base) % q

\* The first k digits of p / q.
RECURSIVE Quotient(_, _, _)
Quotient(p, q, k) ==
    IF k = 1 THEN <<p \div q>>
    ELSE Append(Quotient(p, q, k - 1),
                (Remainder(p, q, k - 1) * Base) \div q)

\* The double p / q of two integers 0 <= p < 2 * q < 2^16, and the double
\* a decimal literal p / q stands for (0.05 is that of 1 / 20): the quotient
\* rounded to nearest. Exact for quotients that are 0 or above 2^-22.
Float(p, q) ==
    RoundNearest(Quotient(p, q, Limbs), Remainder(p, q, Limbs) # 0)

\* The float literals of agent.py that arithmetic is done with.
Float_0_05 == Float(1, 20)
Float_0_1 == Float(1, 10)
Float_0_2 == Float(1, 5)
Float_0_3 == Float(3, 10)
Float_0_4 == Float(2, 5)
Float_0_6 == Float(3, 5)
Float_0_7 == Float(7, 10)

\* a + b on doubles.
FAdd(a, b) == RoundNearest(Sum(a, b), FALSE)

\* max(0.0, a - b) on doubles.
FMonus(a, b) ==
    IF FLess(a, b) THEN Zero ELSE RoundNearest(Difference(a, b), FALSE)

\* min(u, v) on doubles, as Python's min: u unless v is smaller.
FMin(u, v) == IF FLess(v, u) THEN v ELSE u

\* The outcomes of "a if random.random() < p else b", p being a double.
Below(p, a, b) ==
    (IF p # Zero THEN {a} ELSE {}) \cup (IF FLess(p, One) THEN {b} ELSE {})

\* A faulty variant of ForgivingTitForTatDecide: "still" is counted in the
\* last three actions instead of "beat".
ForgivingTitForTatDecideStill(st, history_self, history_opponent) ==
    IF Len(history_opponent) < 3 THEN {Returns("still", st)}
    ELSE IF Count(LastN(history_opponent, 3), "still") >= 2
         THEN {Returns("beat", st)}
         ELSE {Returns("still", st)}

\* ForgivingTitForTatAgent.decide
ForgivingTitForTatDecide(st, history_self, history_opponent) ==
    IF Len(history_opponent) < 3 THEN {Returns("still", st)}
    ELSE IF Count(LastN(history_opponent, 3), "beat") >= 2
         THEN {Returns("beat", st)}
         ELSE {Returns("still", st)}

\* A faulty variant of GradualDecide: the agent's action of two rounds ago
\* is read, history_self[-2], which a history of one round does not have.
GradualDecideTwoBack(st, history_self, history_opponent) ==
    IF history_opponent = <<>> THEN {Returns("still", st)}
    ELSE IF Last(history_opponent) = "beat" /\ Len(history_self) < 2
    THEN {Raises("IndexError", st)}
    ELSE LET st1 == IF /\ Last(history_opponent) = "beat"
                       /\ history_self[Len(history_self) - 1] = "still"
                    THEN [st EXCEPT !.defect_count = st.defect_count + 1,
                                    !.revenge_counter = st.defect_count + 1]
                    ELSE st
         IN IF st1.revenge_counter > 0
            THEN {Returns("beat", [st1 EXCEPT !.revenge_counter = @ - 1])}
            ELSE {Returns("still", st1)}

\* GradualAgent.decide. history_self[-1] is evaluated when the opponent's
\* last action is "beat"; on an empty history_self it raises IndexError.
GradualDecide(st, history_self, history_opponent) ==
    IF history_opponent = <<>> THEN {Returns("still", st)}
    ELSE IF Last(history_opponent) = "beat" /\ history_self = <<>>
    THEN {Raises("IndexError", st)}
    ELSE LET st1 == IF /\ Last(history_opponent) = "beat"
                       /\ Last(history_self) = "still"
                    THEN [st EXCEPT !.defect_count = st.defect_count + 1,
                                    !.revenge_counter = st.defect_count + 1]
                    ELSE st
         IN IF st1.revenge_counter > 0
            THEN {Returns("beat", [st1 EXCEPT !.revenge_counter = @ - 1])}
            ELSE {Returns("still", st1)}

\* PatternDetectorAgent.decide
PatternDetectorDecide(st, history_self, history_opponent) ==
    LET L == st.pattern_length
        n == Len(history_opponent)
        recent_pattern == LastN(history_opponent, L)
    IN IF n < L + 1 THEN {Returns("still", st)}
       ELSE IF \E x \in 0..(n - L * 2 - 1) :
                   /\ Slice(history_opponent, x, x + L) = recent_pattern
                   /\ history_opponent[x + L + 1] = "beat"
            THEN {Returns("beat", st)}
            ELSE {Returns("still", st)}

\* AdaptiveAgent.decide. The thresholds 0.7 and 0.3 are compared in tenths.
AdaptiveDecide(st, history_self, history_opponent) ==
    IF history_opponent = <<>> THEN {Returns("still", st)}
    ELSE LET still_count == Count(history_opponent, "still")
             total == Len(history_opponent)
             st1 == [st EXCEPT !.total_rounds = total,
                               !.cooperation_rate = Frac(still_count, total)]
         IN IF 10 * still_count >= 7 * total THEN {Returns("still", st1)}
            ELSE IF 10 * still_count <= 3 * total THEN {Returns("beat", st1)}
            ELSE {Returns(Last(history_opponent), st1)}

\* TwoCoopOneDefectAgent.decide
TwoCoopOneDefectDecide(st, history_self, history_opponent) ==
    LET st1 == [st EXCEPT !.counter = (st.counter + 1) % 3]
    IN IF st1.counter < 2 THEN {Returns("still", st1)}
       ELSE {Returns("beat", st1)}

\* A faulty variant of RewardPunishmentDecide: after a "still" of the
\* opponent the agent goes on punishing while the counter is positive.
RewardPunishmentDecideWhile(st, history_self, history_opponent) ==
    IF history_opponent = <<>> THEN {Returns("still", st)}
    ELSE LET st1 == IF Last(history_opponent) = "still"
                    THEN [st EXCEPT !.punishment_counter = max(0, @ - 1)]
                    ELSE [st EXCEPT !.punishment_counter = min(5, @ + 2)]
         IN IF st1.punishment_counter > 0 THEN {Returns("beat", st1)}
            ELSE {Returns("still", st1)}

\* RewardPunishmentAgent.decide
RewardPunishmentDecide(st, history_self, history_opponent) ==
    IF history_opponent = <<>> THEN {Returns("still", st)}
    ELSE IF Last(history_opponent) = "still"
    THEN {Returns("still", [st EXCEPT !.punishment_counter = max(0, @ - 1)])}
    ELSE LET st1 == [st EXCEPT !.punishment_counter = min(5, @ + 2)]
         IN IF st1.punishment_counter > 0 THEN {Returns("beat", st1)}
            ELSE {Returns("still", st1)}

\* EscapeTigerAgent.decide
EscapeTigerDecide(st, history_self, history_opponent) ==
    IF history_opponent = <<>> THEN {Returns("still", st)}
    ELSE LET st1 == IF /\ history_self # <<>>
                       /\ Last(history_self) = "still"
                       /\ Last(history_opponent) = "still"
                    THEN [st EXCEPT !.coop_streak = @ + 1]
                    ELSE [st EXCEPT !.coop_streak = 0]
         IN IF st1.test_mode
            THEN IF Last(history_opponent) = "still"
                 THEN {Returns("beat", [st1 EXCEPT !.test_mode = FALSE,
                                                    !.exploit_mode = TRUE])}
                 ELSE {Returns("still", [st1 EXCEPT !.test_mode = FALSE,
                                                     !.exploit_mode = FALSE])}
            ELSE IF st1.exploit_mode
            THEN IF Last(history_opponent) = "beat"
                 THEN {Returns("still", [st1 EXCEPT !.exploit_mode = FALSE])}
                 ELSE {Returns("beat", st1)}
            ELSE IF st1.coop_streak >= 5
            THEN {Returns("beat", [st1 EXCEPT !.test_mode = TRUE,
                                               !.coop_streak = 0])}
            ELSE {Returns("still", st1)}

\* InchingAgent.decide. defect_rate is a double.
InchingDecide(st, history_self, history_opponent) ==
    IF history_opponent = <<>> THEN {Returns("still", st)}
    ELSE LET st1 == IF Last(history_opponent) = "still"
                    THEN [st EXCEPT !.defect_rate =
                                        FMin(Float_0_7,
                                             FAdd(@, Float_0_05))]
                    ELSE [st EXCEPT !.defect_rate = FMonus(@, Float_0_2)]
         IN {Returns(a, st1) : a \in Below(st1.defect_rate, "beat", "still")}

\* TrustBuildingAgent.decide. trust_level and forgiveness are doubles.
TrustBuildingDecide(st, history_self, history_opponent) ==
    IF Len(history_opponent) < 3 THEN {Returns("still", st)}
    ELSE LET st1 == IF Last(history_opponent) = "beat"
                    THEN [st EXCEPT !.trust_level = FMonus(@, Float_0_3)]
                    ELSE [st EXCEPT !.trust_level =
                                        FMin(One, FAdd(@, st.forgiveness))]
         IN {Returns(a, st1) : a \in Below(st1.trust_level, "still", "beat")}

\* A faulty variant of GrudgeDecide: only the opponent's last action is
\* looked at, and nothing is remembered.
GrudgeDecideForgets(st, history_self, history_opponent) ==
    IF history_opponent = <<>> THEN {Returns("still", st)}
    ELSE {Returns(Last(history_opponent), st)}

\* GrudgeAgent.decide
GrudgeDecide(st, history_self, history_opponent) ==
    IF history_opponent = <<>> THEN {Returns("still", st)}
    ELSE LET st1 == IF Count(history_opponent, "beat") > 0
                    THEN [st EXCEPT !.grudge = TRUE] ELSE st
         IN IF st1.grudge THEN {Returns("beat", st1)}
            ELSE {Returns("still", st1)}

\* PunishmentEscalationAgent.decide
PunishmentEscalationDecide(st, history_self, history_opponent) ==
    IF history_opponent = <<>> THEN {Returns("still", st)}
    ELSE IF st.punishment_streak > 0
    THEN {Returns("beat", [st EXCEPT !.punishment_streak = @ - 1])}
    ELSE IF Last(history_opponent) = "beat"
    THEN {Returns("beat",
                  [st EXCEPT !.opponent_defect_count = @ + 1,
                             !.punishment_streak =
                                 min(5, (st.opponent_defect_count + 1) \div 2)])}
    ELSE {Returns("still", st)}

\* ConsensusAgent.decide: "still" with probability 2/7 after a round in
\* which the two actions differed.
ConsensusDecide(st, history_self, history_opponent) ==
    IF history_self = <<>> \/ history_opponent = <<>>
    THEN {Returns("still", st)}
    ELSE IF Last(history_self) = Last(history_opponent)
    THEN {Returns("still", st)}
    ELSE {Returns(a, st) : a \in Chance(2, 7, "still", "beat")}

\* ProbeAgent.decide. cooperation_prob is counted in units of 0.01. The
\* test random.random() > cooperation_prob fails with probability
\* cooperation_prob and succeeds otherwise.
ProbeDecide(st, history_self, history_opponent) ==
    IF history_opponent = <<>> THEN {Returns("still", st)}
    ELSE LET rounds == st.rounds + 1
             st1 == [st EXCEPT !.rounds = rounds,
                               !.cooperation_prob =
                                   IF @ > 50 THEN max(50, 100 - rounds) ELSE @]
             tit_for_tat_action == Last(history_opponent)
         IN IF tit_for_tat_action = "still"
            THEN {Returns(a, st1) :
                     a \in Chance(st1.cooperation_prob, 100, "still", "beat")}
            ELSE {Returns(tit_for_tat_action, st1)}

\* CappedAgent.decide
CappedDecide(st, history_self, history_opponent) ==
    IF history_opponent = <<>> THEN {Returns("still", st)}
    ELSE IF Last(history_opponent) = "still"
    THEN {Returns(a, st) : a \in Chance(9, 10, "still", "beat")}
    ELSE {Returns("beat", st)}

\* ShortMemoryAgent.decide: coop_prob = 0.3 + (coop_count / 3) * 0.4.
ShortMemoryDecide(st, history_self, history_opponent) ==
    LET coop_count == Count(LastN(history_opponent, 3), "still")
        st1 == IF Len(history_opponent) < 3 THEN st
               ELSE [st EXCEPT !.coop_prob = Frac(9 + 4 * coop_count, 30)]
    IN {Returns(a, st1) :
           a \in Chance(st1.coop_prob[1], st1.coop_prob[2], "still", "beat")}

\* The update of MediumMemoryAgent and TitForTatStartMediumMemoryAgent:
\* coop_prob = 0.2 + (coop_count / lookback) * 0.6 over the last
\* min(15, len(history_opponent)) actions of the opponent.
MediumMemoryProb(history_opponent) ==
    LET lookback == min(15, Len(history_opponent))
        coop_count == Count(LastN(history_opponent, lookback), "still")
    IN Frac(lookback + 3 * coop_count, 5 * lookback)

\* MediumMemoryAgent.decide
MediumMemoryDecide(st, history_self, history_opponent) ==
    LET st1 == IF history_opponent = <<>> THEN st
               ELSE [st EXCEPT !.coop_prob = MediumMemoryProb(history_opponent)]
    IN {Returns(a, st1) :
           a \in Chance(st1.coop_prob[1], st1.coop_prob[2], "still", "beat")}

\* LongMemoryAgent.decide: coop_prob = 0.2 + (coop_count / len) * 0.6 over
\* the whole history of the opponent.
LongMemoryDecide(st, history_self, history_opponent) ==
    LET coop_count == Count(history_opponent, "still")
        n == Len(history_opponent)
        st1 == IF history_opponent = <<>> THEN st
               ELSE [st EXCEPT !.coop_prob = Frac(n + 3 * coop_count, 5 * n)]
    IN {Returns(a, st1) :
           a \in Chance(st1.coop_prob[1], st1.coop_prob[2], "still", "beat")}

\* A faulty variant of WinStayLoseShiftDecide: the agent stays on its last
\* action after a "beat" of the opponent too.
WinStayLoseShiftDecideStay(st, history_self, history_opponent) ==
    IF history_self = <<>> \/ history_opponent = <<>>
    THEN {Returns("still", st)}
    ELSE {Returns(Last(history_self), st)}

\* WinStayLoseShiftAgent.decide
WinStayLoseShiftDecide(st, history_self, history_opponent) ==
    IF history_self = <<>> \/ history_opponent = <<>>
    THEN {Returns("still", st)}
    ELSE LET last_action == Last(history_self)
         IN IF Last(history_opponent) = "still"
            THEN {Returns(last_action, st)}
            ELSE {Returns(IF last_action = "still" THEN "beat" ELSE "still",
                          st)}

\* TitForTatStartMediumMemoryAgent.decide
TitForTatStartMediumMemoryDecide(st, history_self, history_opponent) ==
    IF Len(history_opponent) < 5
    THEN {Returns(TitForTatDecide(history_self, history_opponent), st)}
    ELSE LET st1 == [st EXCEPT
                        !.coop_prob = MediumMemoryProb(history_opponent)]
         IN {Returns(a, st1) :
                a \in Chance(st1.coop_prob[1], st1.coop_prob[2],
                             "still", "beat")}

\* AdaptivePunishmentAgent.decide. defect_rate = defect_count / rounds is
\* compared with 0.5 and 0.3 by cross-multiplication.
AdaptivePunishmentDecide(st, history_self, history_opponent) ==
    IF history_opponent = <<>> THEN {Returns("still", st)}
    ELSE LET st1 == [st EXCEPT !.rounds = @ + 1]
         IN IF st1.punishment_streak > 0
            THEN {Returns("beat", [st1 EXCEPT !.punishment_streak = @ - 1])}
            ELSE IF Last(history_opponent) = "beat"
            THEN LET defect_count == st1.defect_count + 1
                     punishment_level ==
                         IF 2 * defect_count > st1.rounds THEN 3
                         ELSE IF 10 * defect_count > 3 * st1.rounds THEN 2
                         ELSE 1
                 IN {Returns("beat",
                             [st1 EXCEPT
                                 !.defect_count = defect_count,
                                 !.punishment_level = punishment_level,
                                 !.punishment_streak = punishment_level])}
            ELSE {Returns("still", st1)}

\* A faulty variant of GradualForgivingDecide: a defection of the opponent
\* is punished once.
GradualForgivingDecideOnce(st, history_self, history_opponent) ==
    IF history_opponent = <<>> THEN {Returns("still", st)}
    ELSE LET st1 == IF Last(history_opponent) = "beat"
                    THEN [st EXCEPT !.rounds_since_defect = 0]
                    ELSE [st EXCEPT !.rounds_since_defect = @ + 1]
         IN IF Last(history_opponent) = "beat" /\ history_self = <<>>
            THEN {Raises("IndexError", st1)}
            ELSE LET st2 == IF /\ Last(history_opponent) = "beat"
                               /\ Last(history_self) = "still"
                            THEN [st1 EXCEPT !.revenge_counter = 1,
                                             !.forgiveness = 5]
                            ELSE st1
                 IN IF st2.revenge_counter > 0
                    THEN {Returns("beat",
                                  [st2 EXCEPT !.revenge_counter = @ - 1])}
                    ELSE IF st2.rounds_since_defect >= st2.forgiveness
                    THEN {Returns("still", [st2 EXCEPT !.forgiveness = 0])}
                    ELSE {Returns(a, st2) :
                             a \in Chance(min(9, 5 + st2.rounds_since_defect),
                                          10, "still", "beat")}

\* GradualForgivingAgent.decide. history_self[-1] is evaluated when the
\* opponent's last action is "beat", after rounds_since_defect was set; on
\* an empty history_self it raises IndexError. The last choice is "still"
\* with probability min(0.9, 0.5 + rounds_since_defect * 0.1), in tenths.
GradualForgivingDecide(st, history_self, history_opponent) ==
    IF history_opponent = <<>> THEN {Returns("still", st)}
    ELSE LET st1 == IF Last(history_opponent) = "beat"
                    THEN [st EXCEPT !.rounds_since_defect = 0]
                    ELSE [st EXCEPT !.rounds_since_defect = @ + 1]
         IN IF Last(history_opponent) = "beat" /\ history_self = <<>>
            THEN {Raises("IndexError", st1)}
            ELSE LET st2 == IF /\ Last(history_opponent) = "beat"
                               /\ Last(history_self) = "still"
                            THEN [st1 EXCEPT !.revenge_counter = 2,
                                             !.forgiveness = 5]
                            ELSE st1
                 IN IF st2.revenge_counter > 0
                    THEN {Returns("beat",
                                  [st2 EXCEPT !.revenge_counter = @ - 1])}
                    ELSE IF st2.rounds_since_defect >= st2.forgiveness
                    THEN {Returns("still", [st2 EXCEPT !.forgiveness = 0])}
                    ELSE {Returns(a, st2) :
                             a \in Chance(min(9, 5 + st2.rounds_since_defect),
                                          10, "still", "beat")}

\* The start indices x in 0..(upto - 1) at which history holds pattern.
Occurrences(history, pattern, upto) ==
    {x \in 0..(upto - 1) : Slice(history, x, x + Len(pattern)) = pattern}

\* PatternMatchingTitForTatAgent._find_best_pattern: the last
\* pattern_length actions when they occur min_occurrences times before the
\* last 2 * pattern_length - 1 positions, else None (<<>>).
find_best_pattern(st, history) ==
    LET L == st.pattern_length
        recent == LastN(history, L)
    IN IF Len(history) < L * 2 THEN <<>>
       ELSE IF Cardinality(Occurrences(history, recent, Len(history) - L * 2 + 1))
                  >= st.min_occurrences
            THEN recent
            ELSE <<>>

\* PatternMatchingTitForTatAgent._predict_next_action: "beat" when more
\* than half of the actions that followed the pattern were "beat".
predict_next_action(history, pattern) ==
    LET positions == Occurrences(history, pattern, Len(history) - Len(pattern))
        defects == {x \in positions : history[x + Len(pattern) + 1] = "beat"}
    IN IF positions # {} /\ 2 * Cardinality(defects) > Cardinality(positions)
       THEN "beat"
       ELSE "still"

\* A faulty variant of PatternMatchingTitForTatDecide: the predicted action
\* is returned whenever a pattern was found, a predicted "still" too.
PatternMatchingTitForTatDecideBoth(st, history_self, history_opponent) ==
    IF history_opponent = <<>> THEN {Returns("still", st)}
    ELSE LET pattern == find_best_pattern(st, history_opponent)
         IN IF /\ Len(history_opponent) >= st.pattern_length * 3
               /\ pattern # <<>>
            THEN {Returns(predict_next_action(history_opponent, pattern), st)}
            ELSE {Returns(Last(history_opponent), st)}

\* PatternMatchingTitForTatAgent.decide
PatternMatchingTitForTatDecide(st, history_self, history_opponent) ==
    IF history_opponent = <<>> THEN {Returns("still", st)}
    ELSE LET pattern == find_best_pattern(st, history_opponent)
         IN IF /\ Len(history_opponent) >= st.pattern_length * 3
               /\ pattern # <<>>
               /\ predict_next_action(history_opponent, pattern) = "beat"
            THEN {Returns("beat", st)}
            ELSE {Returns(Last(history_opponent), st)}

\* FrequencyAnalysisAgent.decide. The two rates are the doubles the
\* divisions give, and the tests compare doubles: after_beat_defect_rate >
\* after_still_defect_rate + 0.3 also holds where the two sides are equal
\* as fractions and the float sum is rounded down (0.6 + 0.3 against 0.9).
FrequencyAnalysisDecide(st, history_self, history_opponent) ==
    LET counted == Len(history_self) > 1 /\ Len(history_opponent) > 1
        after_still == counted /\ history_self[Len(history_self) - 1] = "still"
        after_beat == counted /\ ~after_still
        defected == Last(history_opponent) = "beat"
        st1 == [st EXCEPT
                   !.after_still_total = IF after_still THEN @ + 1 ELSE @,
                   !.after_still_defect =
                       IF after_still /\ defected THEN @ + 1 ELSE @,
                   !.after_beat_total = IF after_beat THEN @ + 1 ELSE @,
                   !.after_beat_defect =
                       IF after_beat /\ defected THEN @ + 1 ELSE @]
        after_still_defect_rate ==
            Float(st1.after_still_defect, max(1, st1.after_still_total))
        after_beat_defect_rate ==
            Float(st1.after_beat_defect, max(1, st1.after_beat_total))
    IN IF Len(history_opponent) < 5 THEN {Returns("still", st1)}
       ELSE IF FLess(Float_0_6, after_still_defect_rate)
       THEN {Returns("beat", st1)}
       ELSE IF FLess(FAdd(after_still_defect_rate, Float_0_3),
                     after_beat_defect_rate)
       THEN {Returns("still", st1)}
       ELSE IF /\ FLess(Float_0_4, after_still_defect_rate)
               /\ FLess(Float_0_4, after_beat_defect_rate)
       THEN {Returns("beat", st1)}
       ELSE {Returns(Last(history_opponent), st1)}

\* The rhythms RhythmDetectorAgent.decide tries, in order.
Rhythms ==
    << <<"beat">>, <<"still">>, <<"beat", "still">>,
       <<"still", "still", "beat">>, <<"still", "beat", "beat">> >>

\* RhythmDetectorAgent._check_rhythm: matches / total.
check_rhythm(history, pattern) ==
    IF history = <<>> \/ pattern = <<>> THEN <<0, 1>>
    ELSE Frac(Cardinality({x \in 0..(Len(history) - 1) :
                              history[x + 1] = pattern[(x % Len(pattern)) + 1]}),
              Len(history))

\* The loop over the rhythms from the k-th on: a rhythm is taken when its
\* confidence exceeds 0.7 and the confidence held so far.
RECURSIVE DetectRhythm(_, _, _)
DetectRhythm(k, st, history_opponent) ==
    IF k > Len(Rhythms) THEN st
    ELSE LET confidence == check_rhythm(history_opponent, Rhythms[k])
             held == st.rhythm_confidence
         IN IF /\ 10 * confidence[1] > 7 * confidence[2]
               /\ confidence[1] * held[2] > held[1] * confidence[2]
            THEN DetectRhythm(k + 1,
                              [st EXCEPT !.detected_rhythm = <<Rhythms[k]>>,
                                         !.rhythm_confidence = confidence],
                              history_opponent)
            ELSE DetectRhythm(k + 1, st, history_opponent)

\* A faulty variant of RhythmDetectorDecide: the rhythms are tried in every
\* call, a rhythm being held or not.
RhythmDetectorDecideAgain(st, history_self, history_opponent) ==
    IF Len(history_opponent) < 6 THEN {Returns("still", st)}
    ELSE LET st1 == DetectRhythm(1, st, history_opponent)
         IN IF st1.detected_rhythm # <<>>
            THEN LET rhythm == st1.detected_rhythm[1]
                     next_idx == Len(history_opponent) % Len(rhythm)
                 IN IF rhythm[next_idx + 1] = "beat"
                    THEN {Returns("beat", st1)}
                    ELSE IF rhythm = <<"still">>
                    THEN {Returns(a, st1) :
                             a \in Chance(1, 10, "beat", "still")}
                    ELSE {Returns("still", st1)}
            ELSE {Returns(Last(history_opponent), st1)}

\* RhythmDetectorAgent.decide. detected_rhythm is <<>> for None and
\* <<rhythm>> otherwise; against the rhythm ["still"] the agent plays "beat"
\* with probability 0.1.
RhythmDetectorDecide(st, history_self, history_opponent) ==
    IF Len(history_opponent) < 6 THEN {Returns("still", st)}
    ELSE LET st1 == IF st.detected_rhythm = <<>>
                    THEN DetectRhythm(1, st, history_opponent)
                    ELSE st
         IN IF st1.detected_rhythm # <<>>
            THEN LET rhythm == st1.detected_rhythm[1]
                     next_idx == Len(history_opponent) % Len(rhythm)
                 IN IF rhythm[next_idx + 1] = "beat"
                    THEN {Returns("beat", st1)}
                    ELSE IF rhythm = <<"still">>
                    THEN {Returns(a, st1) :
                             a \in Chance(1, 10, "beat", "still")}
                    ELSE {Returns("still", st1)}
            ELSE {Returns(Last(history_opponent), st1)}

\* The lambdas of HybridAgent.strategies.
HybridStrategy(name, h_self, h_opp) ==
    CASE name = "tit_for_tat" -> IF h_opp # <<>> THEN Last(h_opp) ELSE "still"
      [] name = "always_beat" -> "beat"
      [] name = "always_still" -> "still"

\* A faulty variant of HybridPayoff: mutual cooperation scores 6.
HybridPayoffCoop(action, opp_action) ==
    IF action = "still" /\ opp_action = "still" THEN 6
    ELSE IF action = "beat" /\ opp_action = "still" THEN 5
    ELSE IF action = "still" /\ opp_action = "beat" THEN 0 - 2
    ELSE 1

\* The score HybridAgent._evaluate_strategies gives an action against the
\* opponent's: 3, 5, -2 and 1, the payoffs it assumes.
HybridPayoff(action, opp_action) ==
    IF action = "still" /\ opp_action = "still" THEN 3
    ELSE IF action = "beat" /\ opp_action = "still" THEN 5
    ELSE IF action = "still" /\ opp_action = "beat" THEN 0 - 2
    ELSE 1

\* The score of one strategy over the opponent's last 10 actions, from the
\* x-th of them on. At x = 0 the strategy sees empty histories
\* (history[-10:-10]), or is not asked at all when the history has 10
\* actions.
RECURSIVE HybridScore(_, _, _, _)
HybridScore(name, x, history_self, history_opponent) ==
    IF x >= 10 THEN 0
    ELSE LET recent_opponent == LastN(history_opponent, 10)
             recent_self == LastN(history_self, 10)
             action == IF x = 0 /\ Len(history_opponent) <= 10 THEN "still"
                       ELSE HybridStrategy(name, Slice(recent_self, 0, x),
                                           Slice(recent_opponent, 0, x))
         IN HybridPayoff(action, recent_opponent[x + 1])
            + HybridScore(name, x + 1, history_self, history_opponent)

\* HybridAgent._evaluate_strategies: with 10 actions of the opponent or
\* more, every strategy is scored and the first of the highest score, in
\* the order of the dict, becomes current.
evaluate_strategies(st, history_self, history_opponent) ==
    IF Len(history_opponent) < 10 THEN st
    ELSE LET names == st.strategies
             score == [k \in DOMAIN names |->
                          HybridScore(names[k], 0, history_self,
                                      history_opponent)]
             best == CHOOSE k \in DOMAIN names :
                         /\ \A m \in DOMAIN names : score[m] <= score[k]
                         /\ \A m \in 1..(k - 1) : score[m] < score[k]
         IN [st EXCEPT
                !.strategy_performance =
                    [n \in {names[k] : k \in DOMAIN names} |->
                        score[CHOOSE k \in DOMAIN names : names[k] = n]],
                !.current_strategy = names[best]]

\* HybridAgent.decide
HybridDecide(st, history_self, history_opponent) ==
    LET st1 == [st EXCEPT !.rounds = @ + 1]
        st2 == IF st1.rounds - st1.last_switch >= 10
               THEN [evaluate_strategies(st1, history_self, history_opponent)
                        EXCEPT !.last_switch = st1.rounds]
               ELSE st1
    IN {Returns(HybridStrategy(st2.current_strategy, history_self,
                               history_opponent), st2)}

\* A faulty variant of PavlovDecide: after its own "beat" against "still"
\* the agent returns to "still".
PavlovDecideRepents(st, history_self, history_opponent) ==
    IF history_self = <<>> \/ history_opponent = <<>>
    THEN {Returns(st.default_action, st)}
    ELSE IF Last(history_self) = "still" /\ Last(history_opponent) = "beat"
    THEN {Returns("beat", st)}
    ELSE {Returns("still", st)}

\* PavlovAgent.decide
PavlovDecide(st, history_self, history_opponent) ==
    IF history_self = <<>> \/ history_opponent = <<>>
    THEN {Returns(st.default_action, st)}
    ELSE LET last_action_self == Last(history_self)
             last_action_opp == Last(history_opponent)
         IN IF last_action_self = "still" /\ last_action_opp = "still"
            THEN {Returns("still", st)}
            ELSE IF last_action_self = "beat" /\ last_action_opp = "still"
            THEN {Returns("beat", st)}
            ELSE IF last_action_self = "still" /\ last_action_opp = "beat"
            THEN {Returns("beat", st)}
            ELSE {Returns("still", st)}

\* The classes get_all_agents instantiates: the catalog.
Catalog ==
    {"TitForTatAgent", "AlwaysBeatAgent", "AlwaysStillAgent", "RandomAgent",
     "ForgivingTitForTatAgent", "GradualAgent", "PatternDetectorAgent",
     "AdaptiveAgent", "WinStayLoseShiftAgent", "TwoCoopOneDefectAgent",
     "RewardPunishmentAgent", "EscapeTigerAgent", "InchingAgent",
     "TrustBuildingAgent", "GrudgeAgent", "PunishmentEscalationAgent",
     "ConsensusAgent", "ProbeAgent", "CappedAgent", "ShortMemoryAgent",
     "MediumMemoryAgent", "LongMemoryAgent",
     "TitForTatStartMediumMemoryAgent", "AdaptivePunishmentAgent",
     "GradualForgivingAgent", "PatternMatchingTitForTatAgent",
     "FrequencyAnalysisAgent", "RhythmDetectorAgent", "HybridAgent",
     "PavlovAgent"}

\* The __init__ of each class: the fields of a new agent.
AgentInit(kind) ==
    CASE kind = "GradualAgent" -> [revenge_counter |-> 0, defect_count |-> 0]
      [] kind = "PatternDetectorAgent" -> [pattern_length |-> 3]
      [] kind = "AdaptiveAgent" ->
            [cooperation_rate |-> <<0, 1>>, total_rounds |-> 0]
      [] kind = "TwoCoopOneDefectAgent" -> [counter |-> 0]
      [] kind = "RewardPunishmentAgent" -> [punishment_counter |-> 0]
      [] kind = "EscapeTigerAgent" ->
            [coop_streak |-> 0, test_mode |-> FALSE, exploit_mode |-> FALSE]
      [] kind = "InchingAgent" -> [defect_rate |-> Zero]
      [] kind = "TrustBuildingAgent" ->
            [trust_level |-> One, forgiveness |-> Float_0_1]
      [] kind = "GrudgeAgent" -> [grudge |-> FALSE]
      [] kind = "PunishmentEscalationAgent" ->
            [opponent_defect_count |-> 0, punishment_streak |-> 0]
      [] kind = "ProbeAgent" -> [cooperation_prob |-> 100, rounds |-> 0]
      [] kind \in {"ShortMemoryAgent", "MediumMemoryAgent", "LongMemoryAgent",
                   "TitForTatStartMediumMemoryAgent"} ->
            [coop_prob |-> <<7, 10>>]
      [] kind = "AdaptivePunishmentAgent" ->
            [punishment_level |-> 1, defect_count |-> 0, rounds |-> 0,
             punishment_streak |-> 0]
      [] kind = "GradualForgivingAgent" ->
            [revenge_counter |-> 0, forgiveness |-> 0,
             rounds_since_defect |-> 0]
      [] kind = "PatternMatchingTitForTatAgent" ->
            [pattern_length |-> 4, min_occurrences |-> 2]
      [] kind = "FrequencyAnalysisAgent" ->
            [after_still_defect |-> 0, after_still_total |-> 0,
             after_beat_defect |-> 0, after_beat_total |-> 0]
      [] kind = "RhythmDetectorAgent" ->
            [detected_rhythm |-> <<>>, rhythm_confidence |-> <<0, 1>>]
      [] kind = "HybridAgent" ->
            [strategies |-> <<"tit_for_tat", "always_beat", "always_still">>,
             current_strategy |-> "tit_for_tat",
             strategy_performance |->
                 [n \in {"tit_for_tat", "always_beat", "always_still"} |-> 0],
             rounds |-> 0, last_switch |-> 0]
      [] kind = "PavlovAgent" ->
            [last_payoff |-> <<>>, default_action |-> "still"]
      [] OTHER -> <<>>

\* The reset() of each class that overrides it.
GradualReset(st) == [st EXCEPT !.revenge_counter = 0, !.defect_count = 0]
AdaptiveReset(st) ==
    [st EXCEPT !.cooperation_rate = <<0, 1>>, !.total_rounds = 0]

\* A faulty variant of TwoCoopOneDefectReset: the counter is kept.
TwoCoopOneDefectResetKeeps(st) == st

TwoCoopOneDefectReset(st) == [st EXCEPT !.counter = 0]
RewardPunishmentReset(st) == [st EXCEPT !.punishment_counter = 0]
EscapeTigerReset(st) ==
    [st EXCEPT !.coop_streak = 0, !.test_mode = FALSE, !.exploit_mode = FALSE]
InchingReset(st) == [st EXCEPT !.defect_rate = Zero]

\* A faulty variant of TrustBuildingReset: forgiveness is cleared as well.
TrustBuildingResetAll(st) ==
    [st EXCEPT !.trust_level = One, !.forgiveness = Zero]

TrustBuildingReset(st) == [st EXCEPT !.trust_level = One]

GrudgeReset(st) == [st EXCEPT !.grudge = FALSE]
PunishmentEscalationReset(st) ==
    [st EXCEPT !.opponent_defect_count = 0, !.punishment_streak = 0]
ProbeReset(st) == [st EXCEPT !.cooperation_prob = 100, !.rounds = 0]
MemoryReset(st) == [st EXCEPT !.coop_prob = <<7, 10>>]
AdaptivePunishmentReset(st) ==
    [st EXCEPT !.punishment_level = 1, !.defect_count = 0, !.rounds = 0,
               !.punishment_streak = 0]
GradualForgivingReset(st) ==
    [st EXCEPT !.revenge_counter = 0, !.forgiveness = 0,
               !.rounds_since_defect = 0]
FrequencyAnalysisReset(st) ==
    [st EXCEPT !.after_still_defect = 0, !.after_still_total = 0,
               !.after_beat_defect = 0, !.after_beat_total = 0]
RhythmDetectorReset(st) ==
    [st EXCEPT !.detected_rhythm = <<>>, !.rhythm_confidence = <<0, 1>>]

\* A faulty variant of HybridReset: the two counters are reset, the strategy
\* in use and the scores of the last evaluation are kept.
HybridResetKeepsStrategy(st) ==
    [st EXCEPT !.rounds = 0, !.last_switch = 0]

HybridReset(st) ==
    [st EXCEPT !.current_strategy = "tit_for_tat",
               !.strategy_performance =
                   [n \in {st.strategies[k] : k \in DOMAIN st.strategies} |-> 0],
               !.rounds = 0, !.last_switch = 0]
PavlovReset(st) == [st EXCEPT !.last_payoff = <<>>]

\* agent.reset(): the override of the class, or Agent.reset, which does
\* nothing.
reset(kind, st) ==
    CASE kind = "GradualAgent" -> GradualReset(st)
      [] kind = "AdaptiveAgent" -> AdaptiveReset(st)
      [] kind = "TwoCoopOneDefectAgent" -> TwoCoopOneDefectReset(st)
      [] kind = "RewardPunishmentAgent" -> RewardPunishmentReset(st)
      [] kind = "EscapeTigerAgent" -> EscapeTigerReset(st)
      [] kind = "InchingAgent" -> InchingReset(st)
      [] kind = "TrustBuildingAgent" -> TrustBuildingReset(st)
      [] kind = "GrudgeAgent" -> GrudgeReset(st)
      [] kind = "PunishmentEscalationAgent" -> PunishmentEscalationReset(st)
      [] kind = "ProbeAgent" -> ProbeReset(st)
      [] kind \in {"ShortMemoryAgent", "MediumMemoryAgent", "LongMemoryAgent",
                   "TitForTatStartMediumMemoryAgent"} -> MemoryReset(st)
      [] kind = "AdaptivePunishmentAgent" -> AdaptivePunishmentReset(st)
      [] kind = "GradualForgivingAgent" -> GradualForgivingReset(st)
      [] kind = "FrequencyAnalysisAgent" -> FrequencyAnalysisReset(st)
      [] kind = "RhythmDetectorAgent" -> RhythmDetectorReset(st)
      [] kind = "HybridAgent" -> HybridReset(st)
      [] kind = "PavlovAgent" -> PavlovReset(st)
      [] OTHER -> st

\* agent.decide(history_self, history_opponent) on an agent whose fields
\* are st: every outcome the call can have.
DecideCall(kind, st, history_self, history_opponent) ==
    LET hs == history_self
        ho == history_opponent
    IN CASE kind \in Kinds -> {Returns(a, st) : a \in decide(kind, hs, ho)}
         [] kind = "ForgivingTitForTatAgent" ->
               ForgivingTitForTatDecide(st, hs, ho)
         [] kind = "GradualAgent" -> GradualDecide(st, hs, ho)
         [] kind = "PatternDetectorAgent" -> PatternDetectorDecide(st, hs, ho)
         [] kind = "AdaptiveAgent" -> AdaptiveDecide(st, hs, ho)
         [] kind = "WinStayLoseShiftAgent" -> WinStayLoseShiftDecide(st, hs, ho)
         [] kind = "TwoCoopOneDefectAgent" -> TwoCoopOneDefectDecide(st, hs, ho)
         [] kind = "RewardPunishmentAgent" -> RewardPunishmentDecide(st, hs, ho)
         [] kind = "EscapeTigerAgent" -> EscapeTigerDecide(st, hs, ho)
         [] kind = "InchingAgent" -> InchingDecide(st, hs, ho)
         [] kind = "TrustBuildingAgent" -> TrustBuildingDecide(st, hs, ho)
         [] kind = "GrudgeAgent" -> GrudgeDecide(st, hs, ho)
         [] kind = "PunishmentEscalationAgent" ->
               PunishmentEscalationDecide(st, hs, ho)
         [] kind = "ConsensusAgent" -> ConsensusDecide(st, hs, ho)
         [] kind = "ProbeAgent" -> ProbeDecide(st, hs, ho)
         [] kind = "CappedAgent" -> CappedDecide(st, hs, ho)
         [] kind = "ShortMemoryAgent" -> ShortMemoryDecide(st, hs, ho)
         [] kind = "MediumMemoryAgent" -> MediumMemoryDecide(st, hs, ho)
         [] kind = "LongMemoryAgent" -> LongMemoryDecide(st, hs, ho)
         [] kind = "TitForTatStartMediumMemoryAgent" ->
               TitForTatStartMediumMemoryDecide(st, hs, ho)
         [] kind = "AdaptivePunishmentAgent" ->
               AdaptivePunishmentDecide(st, hs, ho)
         [] kind = "GradualForgivingAgent" -> GradualForgivingDecide(st, hs, ho)
         [] kind = "PatternMatchingTitForTatAgent" ->
               PatternMatchingTitForTatDecide(st, hs, ho)
         [] kind = "FrequencyAnalysisAgent" ->
               FrequencyAnalysisDecide(st, hs, ho)
         [] kind = "RhythmDetectorAgent" -> RhythmDetectorDecide(st, hs, ho)
         [] kind = "HybridAgent" -> HybridDecide(st, hs, ho)
         [] kind = "PavlovAgent" -> PavlovDecide(st, hs, ho)

------------------------------------------------------------------------------
(* src/match.py *)

\* MatchResult.__init__
NewMatchResult ==
    [scores_a |-> <<>>, scores_b |-> <<>>,
     histories_a |-> <<>>, histories_b |-> <<>>]

\* A faulty variant of add_match: B's history is not recorded.
add_match_drops_history_b(res, score_a, score_b, hist_a, hist_b) ==
    [scores_a |-> Append(res.scores_a, score_a),
     scores_b |-> Append(res.scores_b, score_b),
     histories_a |-> Append(res.histories_a, hist_a),
     histories_b |-> res.histories_b]

\* MatchResult.add_match
add_match(res, score_a, score_b, hist_a, hist_b) ==
    [scores_a |-> Append(res.scores_a, score_a),
     scores_b |-> Append(res.scores_b, score_b),
     histories_a |-> Append(res.histories_a, hist_a),
     histories_b |-> Append(res.histories_b, hist_b)]

\* A faulty variant of calculate_reward: the two mixed outcomes pay the
\* wrong side.
calculate_reward_swapped(cfg, action_a, action_b) ==
    IF action_a = "beat" /\ action_b = "beat" THEN <<cfg.llost, cfg.llost>>
    ELSE IF action_a = "still" /\ action_b = "still"
         THEN <<cfg.wwin, cfg.wwin>>
    ELSE IF action_a = "beat" /\ action_b = "still"
         THEN <<cfg.beaten, cfg.beat>>
    ELSE <<cfg.beat, cfg.beaten>>

\* A faulty variant of calculate_reward: agent_b is paid llost where its
\* "beat" meets a "still".
calculate_reward_one_sided(cfg, action_a, action_b) ==
    IF action_a = "beat" /\ action_b = "beat" THEN <<cfg.llost, cfg.llost>>
    ELSE IF action_a = "still" /\ action_b = "still"
         THEN <<cfg.wwin, cfg.wwin>>
    ELSE IF action_a = "beat" /\ action_b = "still"
         THEN <<cfg.beat, cfg.beaten>>
    ELSE <<cfg.beaten, cfg.llost>>

\* Match._calculate_reward: <<reward_a, reward_b>>
calculate_reward(cfg, action_a, action_b) ==
    IF action_a = "beat" /\ action_b = "beat" THEN <<cfg.llost, cfg.llost>>
    ELSE IF action_a = "still" /\ action_b = "still"
         THEN <<cfg.wwin, cfg.wwin>>
    ELSE IF action_a = "beat" /\ action_b = "still"
         THEN <<cfg.beat, cfg.beaten>>
    ELSE <<cfg.beaten, cfg.beat>>

\* The config and the two agents of the Match.run in progress: agent_a and
\* agent_b are self.agents[i] and self.agents[j] in a tournament, and the
\* two agents of run_individual_match (i = 0, j = 1) otherwise.
Cfg == config[1]
AgentA == agents[i + 1]
AgentB == agents[j + 1]

\* Match.run, up to the loop: result = MatchResult().
MatchRunStart ==
    /\ pc = "match_start"
    /\ result' = NewMatchResult
    /\ match_idx' = 0
    /\ pc' = "match_loop"
    /\ UNCHANGED <<agent_state, calls, call, n_decides, mode,
                   args, config, roster, agents, scores, agent_lookup, i, j,
                   pairs_run, history_a, history_b, total_a, total_b,
                   returned, ranked, error>>

\* An entry of calls: a reset() or a decide(own, opp) on the agent at
\* roster index agent, and what the decide returned or raised.
ResetEntry(agent) ==
    [op |-> "reset", agent |-> agent, own |-> <<>>, opp |-> <<>>, out |-> ""]
DecideEntry(agent, own, opp, r) ==
    [op |-> "decide", agent |-> agent, own |-> own, opp |-> opp,
     out |-> IF r.exc = "" THEN r.action ELSE r.exc]

\* A faulty variant of ResetsOf: agent_a is reset twice, agent_b never.
ResetsOfFirstOnly(a, b) == <<a, a>>

\* Match.run, the agents reset before a match, in order: agent_a.reset(),
\* agent_b.reset().
ResetsOf(a, b) == <<a, b>>

\* A faulty variant of DecideArgs: agent_b is handed the histories in
\* agent_a's order.
DecideArgsUnswapped(side, hist_a, hist_b) == <<hist_a, hist_b>>

\* The two histories _run_single_match hands to decide: the agent's own
\* first, the opponent's second.
DecideArgs(side, hist_a, hist_b) ==
    IF side = "a" THEN <<hist_a, hist_b>> ELSE <<hist_b, hist_a>>

\* A faulty variant of Illegal: only agent_a's action is checked.
IllegalFirstOnly(action_a, action_b) == action_a \notin Actions

\* The legality check of _run_single_match.
Illegal(action_a, action_b) ==
    action_a \notin Actions \/ action_b \notin Actions

\* Match.run, one iteration begins: both agents are reset and
\* _run_single_match initialises its locals.
MatchLoopEnter ==
    /\ pc = "match_loop"
    /\ match_idx < Cfg.num_matches
    /\ LET rs == ResetsOf(i, j)
           st1 == [agent_state EXCEPT
                      ![rs[1] + 1] = reset(agents[rs[1] + 1].kind, @)]
       IN /\ agent_state' =
                [st1 EXCEPT ![rs[2] + 1] = reset(agents[rs[2] + 1].kind, @)]
          /\ calls' = <<ResetEntry(rs[1]), ResetEntry(rs[2])>>
    /\ history_a' = <<>>
    /\ history_b' = <<>>
    /\ total_a' = 0
    /\ total_b' = 0
    /\ pc' = "round_loop"
    /\ UNCHANGED <<call, n_decides, mode,
                   args, config, roster, agents, scores, agent_lookup, i, j,
                   pairs_run, match_idx, result, returned, ranked, error>>

\* Match._run_single_match, one round: both decisions, the legality check,
\* the reward, the two appends and the two sums. An exception raised by a
\* decide ends the program there.
PlayRound ==
    /\ pc = "round_loop"
    /\ Len(history_a) < Cfg.rounds_per_match
    /\ LET args_a == DecideArgs("a", history_a, history_b)
           args_b == DecideArgs("b", history_a, history_b)
       IN \E ra \in DecideCall(AgentA.kind, agent_state[i + 1],
                               args_a[1], args_a[2]),
             rb \in DecideCall(AgentB.kind, agent_state[j + 1],
                               args_b[1], args_b[2]) :
          LET entry_a == DecideEntry(i, args_a[1], args_a[2], ra)
              entry_b == DecideEntry(j, args_b[1], args_b[2], rb)
          IN IF ra.exc # ""
             THEN /\ agent_state' = [agent_state EXCEPT ![i + 1] = ra.state]
                  /\ calls' = Append(calls, entry_a)
                  /\ pc' = "raised"
                  /\ error' = ra.exc
                  /\ UNCHANGED <<history_a, history_b, total_a, total_b>>
             ELSE /\ agent_state' = [agent_state EXCEPT ![i + 1] = ra.state,
                                                       ![j + 1] = rb.state]
                  /\ calls' = Append(Append(calls, entry_a), entry_b)
                  /\ IF rb.exc # ""
                     THEN /\ pc' = "raised"
                          /\ error' = rb.exc
                          /\ UNCHANGED <<history_a, history_b,
                                         total_a, total_b>>
                     ELSE IF Illegal(ra.action, rb.action)
                     THEN /\ pc' = "raised"
                          /\ error' = "ValueError"
                          /\ UNCHANGED <<history_a, history_b,
                                         total_a, total_b>>
                     ELSE LET reward ==
                                  calculate_reward(Cfg, ra.action, rb.action)
                          IN /\ history_a' = Append(history_a, ra.action)
                             /\ history_b' = Append(history_b, rb.action)
                             /\ total_a' = total_a + reward[1]
                             /\ total_b' = total_b + reward[2]
                             /\ UNCHANGED <<pc, error>>
    /\ UNCHANGED <<call, n_decides, mode,
                   args, config, roster, agents, scores, agent_lookup, i, j,
                   pairs_run, match_idx, result, returned, ranked>>

\* _run_single_match returns and Match.run records the match.
SingleMatchReturn ==
    /\ pc = "round_loop"
    /\ Len(history_a) >= Cfg.rounds_per_match
    /\ result' = add_match(result, total_a, total_b, history_a, history_b)
    /\ match_idx' = match_idx + 1
    /\ pc' = "match_loop"
    /\ UNCHANGED <<agent_state, calls, call, n_decides, mode,
                   args, config, roster, agents, scores, agent_lookup, i, j,
                   pairs_run, history_a, history_b, total_a, total_b,
                   returned, ranked, error>>

\* Match.run returns result: to run_individual_match (main.py:83), which is
\* then done, or to Tournament.run (tournament.py:101).
MatchRunReturn ==
    /\ pc = "match_loop"
    /\ match_idx >= Cfg.num_matches
    /\ returned' = Append(returned, result)
    /\ pc' = IF mode = "tournament" THEN "got_result" ELSE "done"
    /\ UNCHANGED <<agent_state, calls, call, n_decides, mode,
                   args, config, roster, agents, scores, agent_lookup, i, j,
                   pairs_run, match_idx, result, history_a, history_b,
                   total_a, total_b, ranked, error>>

------------------------------------------------------------------------------
(* src/tournament.py *)

\* f"{name}_{k}"
Format(name, k) == [base |-> name.base, suffix |-> Append(name.suffix, k)]

\* [agent.name for agent in ags], as a set
NamesOf(ags) == {ags[p].name : p \in 1..Len(ags)}

\* A faulty variant of DedupStep: the suffix of a repeated name is one too
\* high.
DedupOffByOne(ags, p, name_counts) ==
    LET n == ags[p].name IN
    IF n \in DOMAIN name_counts
    THEN LET c == name_counts[n] + 1 IN
         <<[ags EXCEPT ![p].name = Format(n, c + 1)],
           [name_counts EXCEPT ![n] = c]>>
    ELSE <<ags, name_counts @@ (n :> 0)>>

\* Tournament._validate_agents, the body of the renaming loop for the agent
\* at position p: <<the agents, name_counts>> after it.
DedupStep(ags, p, name_counts) ==
    LET n == ags[p].name IN
    IF n \in DOMAIN name_counts
    THEN LET c == name_counts[n] + 1 IN
         <<[ags EXCEPT ![p].name = Format(n, c)],
           [name_counts EXCEPT ![n] = c]>>
    ELSE <<ags, name_counts @@ (n :> 0)>>

\* The renaming loop from position p on.
RECURSIVE DedupFrom(_, _, _)
DedupFrom(ags, p, name_counts) ==
    IF p > Len(ags) THEN ags
    ELSE LET step == DedupStep(ags, p, name_counts) IN
         DedupFrom(step[1], p + 1, step[2])

\* Tournament._validate_agents for a roster of at least two agents: the
\* renaming loop runs only when some name is repeated.
validate_agents(ags) ==
    IF Len(ags) # Cardinality(NamesOf(ags))
    THEN DedupFrom(ags, 1, <<>>)
    ELSE ags

\* The iteration of the two nested loops of Tournament.run that follows
\* iteration (x, y) and passes the test i < j: the set holding it, or {}.
NextPair(x, y, n) ==
    LET later == {q \in (0..(n - 1)) \X (0..(n - 1)) :
                     /\ q[1] < q[2]
                     /\ q[1] > x \/ (q[1] = x /\ q[2] > y)}
    IN {q \in later : \A r \in later :
                         q[1] < r[1] \/ (q[1] = r[1] /\ q[2] <= r[2])}

\* A faulty variant of TournamentInit: the size of the roster is not checked.
TournamentInitUnchecked ==
    /\ pc = "tournament_new"
    /\ pc' = "tournament_built"
    /\ agents' = validate_agents(roster)
    /\ UNCHANGED <<agent_state, calls, call, n_decides, mode,
                   args, config, roster, scores, agent_lookup, i, j,
                   pairs_run, match_idx, result, history_a, history_b,
                   total_a, total_b, returned, ranked, error>>

\* Tournament.__init__: self.agents = agents, then _validate_agents.
TournamentInit ==
    /\ pc = "tournament_new"
    /\ IF Len(roster) < 2
       THEN /\ pc' = "raised"
            /\ error' = "ValueError"
            /\ UNCHANGED agents
       ELSE /\ pc' = "tournament_built"
            /\ agents' = validate_agents(roster)
            /\ UNCHANGED error
    /\ UNCHANGED <<agent_state, calls, call, n_decides, mode,
                   args, config, roster, scores, agent_lookup, i, j,
                   pairs_run, match_idx, result, history_a, history_b,
                   total_a, total_b, returned, ranked>>

\* Tournament.run up to the loops: the two dicts keyed by name. A dict
\* comprehension keeps one entry per key, the last one written.
TournamentRunStart ==
    /\ pc = "tournament_built"
    /\ scores' = [n \in NamesOf(agents) |-> <<>>]
    /\ agent_lookup' =
          [n \in NamesOf(agents) |->
              CHOOSE x \in 0..(Len(agents) - 1) :
                  /\ agents[x + 1].name = n
                  /\ \A y \in 0..(Len(agents) - 1) :
                        agents[y + 1].name = n => y <= x]
    /\ i' = 0
    /\ j' = 0
    /\ pc' = "pair_loop"
    /\ UNCHANGED <<agent_state, calls, call, n_decides, mode,
                   args, config, roster, agents, pairs_run, match_idx,
                   result, history_a, history_b, total_a, total_b, returned,
                   ranked, error>>

\* The loops advance to the next i < j and Match(self.config).run is called.
RunPair ==
    /\ pc = "pair_loop"
    /\ \E q \in NextPair(i, j, Len(agents)) :
          /\ i' = q[1]
          /\ j' = q[2]
          /\ pairs_run' = Append(pairs_run, q)
    /\ pc' = "match_start"
    /\ UNCHANGED <<agent_state, calls, call, n_decides, mode,
                   args, config, roster, agents, scores, agent_lookup,
                   match_idx, result, history_a, history_b, total_a, total_b,
                   returned, ranked, error>>

\* tournament.py:104: result.get_025_scores(). MatchResult (match.py:7-66)
\* defines get_avg_scores, get_min_scores, get_middle_scores and
\* get_win_count_info, and no get_025_scores: the call raises AttributeError,
\* which nothing in Tournament.run catches. The statements after it
\* (tournament.py:105-137: recording the scores, the means, the ranking)
\* are never executed.
RecordScores ==
    /\ pc = "got_result"
    /\ pc' = "raised"
    /\ error' = "AttributeError"
    /\ UNCHANGED <<agent_state, calls, call, n_decides, mode,
                   args, config, roster, agents, scores, agent_lookup,
                   i, j, pairs_run, match_idx, result, history_a, history_b,
                   total_a, total_b, returned, ranked>>

------------------------------------------------------------------------------
(* An agent driven directly, and Match.run called twice *)

\* The agent driven directly.
Agent == agents[1]

\* The histories handed to it: every history of up to MaxHist actions, and
\* three of LongLen actions.
AgentHistories ==
    UNION {[1..n -> Actions] : n \in 0..MaxHist}
        \cup {[k \in 1..LongLen |-> "beat"], [k \in 1..LongLen |-> "still"],
              [k \in 1..LongLen |-> IF k % 2 = 1 THEN "beat" ELSE "still"]}

\* agent.decide(history_self, history_opponent) on any two histories, of
\* equal length or not. An exception it raises ends the program.
AgentDecide ==
    /\ pc = "agent_ready"
    /\ n_decides < MaxCalls
    /\ \E history_self \in AgentHistories, history_opponent \in AgentHistories :
          \E r \in DecideCall(Agent.kind, agent_state[1],
                              history_self, history_opponent) :
              /\ agent_state' = <<r.state>>
              /\ call' = [op |-> "decide",
                          out |-> IF r.exc = "" THEN r.action ELSE r.exc,
                          before |-> agent_state[1]]
              /\ pc' = IF r.exc = "" THEN pc ELSE "raised"
              /\ error' = r.exc
    /\ n_decides' = n_decides + 1
    /\ UNCHANGED <<calls, mode, args, config, roster, agents, scores,
                   agent_lookup, i, j, pairs_run, match_idx, result,
                   history_a, history_b, total_a, total_b, returned, ranked>>

\* agent.reset()
AgentReset ==
    /\ pc = "agent_ready"
    /\ agent_state' = <<reset(Agent.kind, agent_state[1])>>
    /\ call' = [op |-> "reset", out |-> "", before |-> agent_state[1]]
    /\ n_decides' = 0
    /\ UNCHANGED <<calls, mode, args, config, roster, agents, scores,
                   agent_lookup, i, j, pairs_run, match_idx, result,
                   history_a, history_b, total_a, total_b, returned, ranked,
                   pc, error>>

\* agent.decide(history_self, history_opponent) as in AgentDecide, the two
\* arguments of the call kept in history_a and history_b.
AgentDecideOn ==
    /\ pc = "agent_ready"
    /\ \E history_self \in AgentHistories, history_opponent \in AgentHistories :
          \E r \in DecideCall(Agent.kind, agent_state[1],
                              history_self, history_opponent) :
              /\ agent_state' = <<r.state>>
              /\ call' = [op |-> "decide",
                          out |-> IF r.exc = "" THEN r.action ELSE r.exc,
                          before |-> agent_state[1]]
              /\ history_a' = history_self
              /\ history_b' = history_opponent
              /\ pc' = IF r.exc = "" THEN pc ELSE "raised"
              /\ error' = r.exc
    /\ UNCHANGED <<calls, n_decides, mode, args, config, roster, agents,
                   scores, agent_lookup, i, j, pairs_run, match_idx, result,
                   total_a, total_b, returned, ranked>>

\* Match.run is called a second time on the same config and the same two
\* agent objects.
RunAgain ==
    /\ pc = "done"
    /\ mode = "repeat"
    /\ Len(returned) < 2
    /\ pc' = "match_start"
    /\ UNCHANGED <<agent_state, calls, call, n_decides, mode,
                   args, config, roster, agents, scores, agent_lookup, i, j,
                   pairs_run, match_idx, result, history_a, history_b,
                   total_a, total_b, returned, ranked, error>>

\* After Match.run(x, y) has returned, Match.run(y, x) is called on the same
\* config and two newly constructed agents of the same two classes.
RunSwapped ==
    /\ pc = "done"
    /\ mode = "swap"
    /\ Len(returned) < 2
    /\ agents' = <<agents[2], agents[1]>>
    /\ agent_state' = <<AgentInit(agents[2].kind), AgentInit(agents[1].kind)>>
    /\ pc' = "match_start"
    /\ UNCHANGED <<calls, call, n_decides, mode, args, config, roster,
                   scores, agent_lookup, i, j, pairs_run, match_idx, result,
                   history_a, history_b, total_a, total_b, returned, ranked,
                   error>>

------------------------------------------------------------------------------
(* Inputs and specifications *)

\* The payoffs of the runs: main.py's defaults (main.py:135-142), and a
\* table with llost = beaten.
PayoffTables == {<<5, 3, 1, 0>>, <<3, 2, 1, 1>>}

\* The configs GameConfig accepts, over PayoffTables and the bounds.
ValidConfigs ==
    {c \in [beat : {5, 3}, wwin : {3, 2}, llost : {1}, beaten : {0, 1},
            rounds_per_match : 1..MaxRounds, num_matches : 1..MaxMatches] :
        /\ <<c.beat, c.wwin, c.llost, c.beaten>> \in PayoffTables
        /\ ConfigOrder(c)
        /\ ConfigCounts(c)}

\* Names of the rosters: 'A', 'A_1', 'B'.
RosterNames ==
    {[base |-> "A", suffix |-> <<>>], [base |-> "A", suffix |-> <<1>>],
     [base |-> "B", suffix |-> <<>>]}

TournamentKinds == {"AlwaysBeatAgent", "FaultyAgent"}

RosterAgents == [name : RosterNames, kind : TournamentKinds]

Rosters == UNION {[1..n -> RosterAgents] : n \in 0..MaxAgents}

\* No call was made yet on the agent driven directly.
NoCall == [op |-> "init", out |-> "", before |-> <<>>]

Idle ==
    /\ scores = <<>>
    /\ agent_lookup = <<>>
    /\ pairs_run = <<>>
    /\ match_idx = 0
    /\ result = NewMatchResult
    /\ history_a = <<>>
    /\ history_b = <<>>
    /\ total_a = 0
    /\ total_b = 0
    /\ returned = <<>>
    /\ ranked = <<>>
    /\ error = ""
    /\ agent_state = [p \in 1..Len(roster) |-> AgentInit(roster[p].kind)]
    /\ calls = <<>>
    /\ call = NoCall
    /\ n_decides = 0

\* GameConfig(...) on any arguments.
InitConfig ==
    /\ pc = "config_new"
    /\ mode = "individual"
    /\ args \in ArgSpace
    /\ config = <<>>
    /\ roster = <<>>
    /\ agents = <<>>
    /\ i = 0
    /\ j = 0
    /\ Idle

NextConfig == GameConfigInit

SpecConfig == InitConfig /\ [][NextConfig]_vars

\* run_individual_match (main.py:61-89): Match(config).run(agent_a, agent_b)
\* on a valid config and two agents named as get_agent_by_name names them
\* (one fixed name per class).
\* Two RandomAgents play under main.py's default
\* payoffs only: their runs are most of the runs there are.
InitMatch ==
    /\ pc = "match_start"
    /\ mode = "individual"
    /\ args \in ValidConfigs
    /\ config = <<args>>
    /\ roster \in [1..2 -> {[name |-> DefaultName(k), kind |-> k] : k \in Kinds}]
    /\ (roster[1].kind = "RandomAgent" /\ roster[2].kind = "RandomAgent")
          => args.beaten = 0
    /\ agents = roster
    /\ i = 0
    /\ j = 1
    /\ Idle

NextMatch ==
    \/ MatchRunStart
    \/ MatchLoopEnter
    \/ PlayRound
    \/ SingleMatchReturn
    \/ MatchRunReturn

SpecMatch == InitMatch /\ [][NextMatch]_vars

\* One catalog agent, constructed under its default name, on which decide
\* and reset are called in any order.
InitAgent ==
    /\ pc = "agent_ready"
    /\ mode = "individual"
    /\ args = <<>>
    /\ config = <<>>
    /\ roster \in [1..1 -> {[name |-> DefaultName(k), kind |-> k] : k \in Catalog}]
    /\ agents = roster
    /\ i = 0
    /\ j = 0
    /\ Idle

NextAgent ==
    \/ AgentDecide
    \/ AgentReset

SpecAgent == InitAgent /\ [][NextAgent]_vars

\* The catalog classes whose fields take finitely many values whatever
\* the calls, among them the classes without fields.
FewFields ==
    {"TitForTatAgent", "WinStayLoseShiftAgent", "PavlovAgent",
     "RewardPunishmentAgent", "PatternDetectorAgent"}

\* One agent of such a class, constructed under its default name, on which
\* decide and reset are called in any order, the arguments of decide kept.
InitDecide ==
    /\ pc = "agent_ready"
    /\ mode = "individual"
    /\ args = <<>>
    /\ config = <<>>
    /\ roster \in [1..1 -> {[name |-> DefaultName(k), kind |-> k] :
                                k \in FewFields}]
    /\ agents = roster
    /\ i = 0
    /\ j = 0
    /\ Idle

NextDecide ==
    \/ AgentDecideOn
    \/ AgentReset

SpecDecide == InitDecide /\ [][NextDecide]_vars

\* The catalog classes whose decide draws no random number.
Deterministic ==
    {"TitForTatAgent", "AlwaysBeatAgent", "AlwaysStillAgent",
     "ForgivingTitForTatAgent", "GradualAgent", "PatternDetectorAgent",
     "AdaptiveAgent", "WinStayLoseShiftAgent", "TwoCoopOneDefectAgent",
     "RewardPunishmentAgent", "EscapeTigerAgent", "GrudgeAgent",
     "PunishmentEscalationAgent", "AdaptivePunishmentAgent",
     "PatternMatchingTitForTatAgent", "FrequencyAnalysisAgent", "HybridAgent",
     "PavlovAgent"}

\* The lengths of the matches between two catalog strategies: one round
\* and CatRounds rounds for any two; MixedRounds rounds too when at most one
\* of them draws random numbers, and DuelRounds rounds when neither does.
CatalogRounds(a, b) ==
    {1, CatRounds}
        \cup (IF a \in Deterministic \/ b \in Deterministic
              THEN {MixedRounds} ELSE {})
        \cup (IF a \in Deterministic /\ b \in Deterministic
              THEN {DuelRounds} ELSE {})

\* The configs of the matches between any two catalog strategies: main.py's
\* default payoffs, one match.
CatalogConfigs ==
    [beat : {5}, wwin : {3}, llost : {1}, beaten : {0},
     rounds_per_match : {1, CatRounds, MixedRounds, DuelRounds},
     num_matches : {1}]

\* run_individual_match (main.py:61-89) on any two strategies of
\* get_all_agents.
InitCatalog ==
    /\ pc = "match_start"
    /\ mode = "individual"
    /\ roster \in [1..2 -> {[name |-> DefaultName(k), kind |-> k] :
                                k \in Catalog}]
    /\ args \in CatalogConfigs
    /\ args.rounds_per_match \in CatalogRounds(roster[1].kind, roster[2].kind)
    /\ config = <<args>>
    /\ agents = roster
    /\ i = 0
    /\ j = 1
    /\ Idle

SpecCatalog == InitCatalog /\ [][NextMatch]_vars

\* The configs of those matches: main.py's default payoffs, matches of one
\* round and of DuelRounds rounds, MaxMatches matches per call.
DuelConfigs ==
    [beat : {5}, wwin : {3}, llost : {1}, beaten : {0},
     rounds_per_match : {1, DuelRounds}, num_matches : {MaxMatches}]

\* Match(config).run(agent_a, agent_b), called twice, on two agents whose
\* decide draws no random number.
InitDuel ==
    /\ pc = "match_start"
    /\ mode = "repeat"
    /\ args \in DuelConfigs
    /\ config = <<args>>
    /\ roster \in [1..2 -> {[name |-> DefaultName(k), kind |-> k] :
                                k \in Deterministic}]
    /\ agents = roster
    /\ i = 0
    /\ j = 1
    /\ Idle

NextDuel ==
    \/ MatchRunStart
    \/ MatchLoopEnter
    \/ PlayRound
    \/ SingleMatchReturn
    \/ MatchRunReturn
    \/ RunAgain

SpecDuel == InitDuel /\ [][NextDuel]_vars

\* The configs of the matches run in both orders: the two payoff tables,
\* matches of one round and of DuelRounds rounds, MaxMatches matches per
\* call.
SwapConfigs ==
    {c \in [beat : {5, 3}, wwin : {3, 2}, llost : {1}, beaten : {0, 1},
            rounds_per_match : {1, DuelRounds}, num_matches : {MaxMatches}] :
        <<c.beat, c.wwin, c.llost, c.beaten>> \in PayoffTables}

\* Match(config).run(x, y), then Match(config).run(y, x), on strategies
\* whose decide draws no random number.
InitSwap ==
    /\ pc = "match_start"
    /\ mode = "swap"
    /\ args \in SwapConfigs
    /\ config = <<args>>
    /\ roster \in [1..2 -> {[name |-> DefaultName(k), kind |-> k] :
                                k \in Deterministic}]
    /\ agents = roster
    /\ i = 0
    /\ j = 1
    /\ Idle

NextSwap ==
    \/ MatchRunStart
    \/ MatchLoopEnter
    \/ PlayRound
    \/ SingleMatchReturn
    \/ MatchRunReturn
    \/ RunSwapped

SpecSwap == InitSwap /\ [][NextSwap]_vars

\* The opponents RhythmDetectorAgent is matched with: one that can play any
\* sequence of actions, and two that play one action throughout.
RhythmOpponents == {"RandomAgent", "AlwaysBeatAgent", "AlwaysStillAgent"}

\* The configs of the matches of RhythmDetectorAgent: main.py's default
\* payoffs, matches of one round or of RhythmRounds rounds.
RhythmConfigs ==
    [beat : {5}, wwin : {3}, llost : {1}, beaten : {0},
     rounds_per_match : {1, RhythmRounds}, num_matches : 1..MaxMatches]

\* run_individual_match (main.py:61-89) on RhythmDetectorAgent and one of
\* its opponents, on either side. Against RandomAgent one match is played:
\* its runs are most of the runs there are.
InitRhythm ==
    /\ pc = "match_start"
    /\ mode = "individual"
    /\ args \in RhythmConfigs
    /\ config = <<args>>
    /\ roster \in [1..2 -> {[name |-> DefaultName(k), kind |-> k] :
                                k \in RhythmOpponents \cup
                                      {"RhythmDetectorAgent"}}]
    /\ \E p \in 1..2 : /\ roster[p].kind = "RhythmDetectorAgent"
                       /\ roster[3 - p].kind \in RhythmOpponents
    /\ (\E p \in 1..2 : roster[p].kind = "RandomAgent")
          => args.num_matches = 1
    /\ agents = roster
    /\ i = 0
    /\ j = 1
    /\ Idle

SpecRhythm == InitRhythm /\ [][NextMatch]_vars

\* run_tournament (main.py:91-125): Tournament(config, agents, log).run()
\* on a valid config and any roster.
Init ==
    /\ pc = "tournament_new"
    /\ mode = "tournament"
    /\ args \in ValidConfigs
    /\ config = <<args>>
    /\ roster \in Rosters
    /\ agents = roster
    /\ i = 0
    /\ j = 0
    /\ Idle

Next ==
    \/ TournamentInit
    \/ TournamentRunStart
    \/ RunPair
    \/ MatchRunStart
    \/ MatchLoopEnter
    \/ PlayRound
    \/ SingleMatchReturn
    \/ MatchRunReturn
    \/ RecordScores

Spec == Init /\ [][Next]_vars

------------------------------------------------------------------------------
(* Properties *)

\* The four sequences of a MatchResult have the same length.
EqualLengths(res) ==
    /\ Len(res.scores_a) = Len(res.scores_b)
    /\ Len(res.scores_a) = Len(res.histories_a)
    /\ Len(res.scores_a) = Len(res.histories_b)

\* Every history recorded in a MatchResult has n entries.
HistoriesOfLength(res, n) ==
    /\ \A k \in 1..Len(res.histories_a) : Len(res.histories_a[k]) = n
    /\ \A k \in 1..Len(res.histories_b) : Len(res.histories_b[k]) = n

\* C1: at every point of Match.run the four sequences of the MatchResult have
\* equal length and every recorded history has rounds_per_match entries; two
\* strategies that return only "beat"/"still" never make the run raise; and
\* the MatchResult returned has num_matches entries in each sequence.
C1_MatchResultShape ==
    /\ EqualLengths(result)
    /\ HistoriesOfLength(result, Cfg.rounds_per_match)
    /\ (AgentA.kind \in CatalogKinds /\ AgentB.kind \in CatalogKinds)
          => pc # "raised"
    /\ pc = "done" =>
          /\ Len(returned) = 1
          /\ EqualLengths(returned[1])
          /\ Len(returned[1].scores_a) = Cfg.num_matches
          /\ HistoriesOfLength(returned[1], Cfg.rounds_per_match)

\* A run of two random strategies returned two matches of two or more rounds
\* whose histories differ.
C1_Witness ==
    /\ pc = "done"
    /\ AgentA.kind = "RandomAgent"
    /\ AgentB.kind = "RandomAgent"
    /\ Cfg.num_matches >= 2
    /\ Cfg.rounds_per_match >= 2
    /\ returned[1].histories_a[1] # returned[1].histories_a[2]

\* The 2x2 table of the specification, for the side that played x against y.
TablePay(cfg, x, y) ==
    CASE x = "beat" /\ y = "beat" -> cfg.llost
      [] x = "still" /\ y = "still" -> cfg.wwin
      [] x = "beat" /\ y = "still" -> cfg.beat
      [] x = "still" /\ y = "beat" -> cfg.beaten

\* The table's payoff summed over the first n rounds of two histories.
RECURSIVE HistorySum(_, _, _, _)
HistorySum(cfg, own, opp, n) ==
    IF n = 0 THEN 0
    ELSE HistorySum(cfg, own, opp, n - 1) + TablePay(cfg, own[n], opp[n])

TotalsMatchTable(res) ==
    \A k \in 1..Len(res.scores_a) :
        /\ res.scores_a[k] =
              HistorySum(Cfg, res.histories_a[k], res.histories_b[k],
                         Len(res.histories_a[k]))
        /\ res.scores_b[k] =
              HistorySum(Cfg, res.histories_b[k], res.histories_a[k],
                         Len(res.histories_b[k]))

\* C2: each per-match total of a MatchResult is the sum over the rounds of
\* the recorded histories of the payoff the 2x2 table gives.
C2_TotalsFollowTable ==
    /\ TotalsMatchTable(result)
    /\ pc = "done" => TotalsMatchTable(returned[1])

\* A returned match holds a (beat, still) round and a (still, beat) round.
C2_Witness ==
    /\ pc = "done"
    /\ \E k \in 1..Len(returned[1].scores_a) :
          LET ha == returned[1].histories_a[k]
              hb == returned[1].histories_b[k]
          IN /\ \E r \in 1..Len(ha) : ha[r] = "beat" /\ hb[r] = "still"
             /\ \E r \in 1..Len(ha) : ha[r] = "still" /\ hb[r] = "beat"

\* The pairs i < j of a roster of n agents, and the place of a pair in their
\* lexicographic order.
AllPairs(n) == {q \in (0..(n - 1)) \X (0..(n - 1)) : q[1] < q[2]}
PairRank(q, n) ==
    Cardinality({r \in AllPairs(n) :
                    r[1] < q[1] \/ (r[1] = q[1] /\ r[2] < q[2])}) + 1

\* Every strategy of the roster returns only "beat" or "still".
ValidOnly == \A p \in 1..Len(roster) : roster[p].kind \in CatalogKinds

\* Tournament.run was entered and has stopped, by returning or by raising,
\* and no strategy returned an illegal value.
RunEnded ==
    /\ Len(roster) >= 2
    /\ pc \in {"done", "raised"}
    /\ error # "ValueError"

\* The pairs whose Match.run has returned and whose scores Tournament.run
\* has had its turn to record.
ScoredPairs ==
    IF pairs_run # <<>> /\ (pc \in {"match_start", "match_loop",
                                    "round_loop", "got_result"}
                            \/ error = "ValueError")
    THEN SubSeq(pairs_run, 1, Len(pairs_run) - 1)
    ELSE pairs_run

\* C3 as stated: the Match.run calls are made in lexicographic order of the
\* pairs i < j, A being the lower index, and when Tournament.run has stopped
\* (no strategy having returned an illegal value) every pair has had its
\* call: N(N-1)/2 calls.
C3_Claim ==
    /\ \A k \in 1..Len(pairs_run) :
          /\ pairs_run[k] \in AllPairs(Len(agents))
          /\ PairRank(pairs_run[k], Len(agents)) = k
    /\ RunEnded =>
          2 * Len(pairs_run) = Len(agents) * (Len(agents) - 1)

\* C4 as stated: a tournament over two or more strategies that return only
\* "beat"/"still" never aborts.
C4_Claim ==
    (Len(roster) >= 2 /\ ValidOnly) => pc # "raised"

Min(S) == CHOOSE x \in S : \A y \in S : x <= y
Max(S) == CHOOSE x \in S : \A y \in S : x >= y
Range(f) == {f[x] : x \in DOMAIN f}

\* C5 as stated: for the pair played last, once its scores have had their
\* turn to be recorded, each side has a recorded score against the other,
\* between the least and the greatest of its match totals.
C5_Claim ==
    (ScoredPairs # <<>> /\ Len(ScoredPairs) = Len(pairs_run)) =>
        LET na == AgentA.name
            nb == AgentB.name
        IN /\ nb \in DOMAIN scores[na]
           /\ na \in DOMAIN scores[nb]
           /\ scores[na][nb] >= Min(Range(returned[1].scores_a))
           /\ scores[na][nb] <= Max(Range(returned[1].scores_a))
           /\ scores[nb][na] >= Min(Range(returned[1].scores_b))
           /\ scores[nb][na] <= Max(Range(returned[1].scores_b))

\* C6 as stated: once every pair is played and scored, every roster strategy
\* has N-1 recorded scores.
C6_Claim ==
    (/\ Len(roster) >= 2
     /\ \A q \in AllPairs(Len(agents)) : q \in Range(ScoredPairs))
        => \A p \in 1..Len(agents) :
              Cardinality(DOMAIN scores[agents[p].name]) = Len(agents) - 1

\* C7 as stated: Tournament.run, when no strategy returns an illegal value,
\* returns a ranking of the N roster strategies.
\* An entry of ranked is [agent, score]; the order is non-increasing in score
\* and, between equal scores, increasing in roster index.
C7_Claim ==
    RunEnded =>
        /\ Len(ranked) = Len(agents)
        /\ \A k, l \in 1..Len(ranked) :
              k < l => \/ ranked[k].score > ranked[l].score
                       \/ /\ ranked[k].score = ranked[l].score
                          /\ ranked[k].agent < ranked[l].agent

\* Tournament.__init__ has returned.
Constructed == Len(roster) >= 2 /\ pc # "tournament_new"

\* C8 as stated: after construction the names are pairwise distinct, and the
\* score table and the name lookup hold one entry per roster member.
C8_Claim ==
    Constructed =>
        /\ \A p, q \in 1..Len(agents) :
              p # q => agents[p].name # agents[q].name
        /\ pc # "tournament_built" =>
              /\ Cardinality(DOMAIN scores) = Len(agents)
              /\ Cardinality(DOMAIN agent_lookup) = Len(agents)

\* How many agents before position p the roster handed in names as it names
\* the agent at p.
EarlierSame(p) ==
    Cardinality({q \in 1..(p - 1) : roster[q].name = roster[p].name})

\* C9: after construction the agent at each position is the one handed in;
\* it keeps its name when no earlier agent was handed in under that name, and
\* is named '<name>_k' when k >= 1 earlier agents were.
C9_StableDedup ==
    Constructed =>
        /\ Len(agents) = Len(roster)
        /\ \A p \in 1..Len(roster) :
              /\ agents[p].kind = roster[p].kind
              /\ agents[p].name =
                    IF EarlierSame(p) = 0 THEN roster[p].name
                    ELSE Format(roster[p].name, EarlierSame(p))

\* Three agents were handed in under one name: the third is '<name>_2'.
C9_Witness ==
    /\ Constructed
    /\ \E p \in 1..Len(roster) :
          /\ EarlierSame(p) = 2
          /\ agents[p].name = Format(roster[p].name, 2)
          /\ agents[1].name = roster[1].name

\* C10: GameConfig(...) produces a config exactly when
\* beat > wwin > llost >= beaten and both counts are positive, and raises
\* ValueError, producing none, in every other case.
C10_ConfigValidation ==
    pc # "config_new" =>
        IF /\ args.beat > args.wwin
           /\ args.wwin > args.llost
           /\ args.llost >= args.beaten
           /\ args.rounds_per_match > 0
           /\ args.num_matches > 0
        THEN pc = "config_built" /\ config = <<args>> /\ error = ""
        ELSE pc = "raised" /\ config = <<>> /\ error = "ValueError"

\* A config with llost = beaten was built.
C10_Witness ==
    /\ pc = "config_built"
    /\ config = <<args>>
    /\ args.llost = args.beaten

\* C11: every GameConfig(...) with llost <= beaten, and every one with
\* beat <= wwin, raises. The comment of config.py:18 says the same
\* (llost > beaten); the test of config.py:19 lets llost = beaten through.
C11_Claim ==
    (pc # "config_new" /\ (args.llost <= args.beaten \/ args.beat <= args.wwin))
        => pc = "raised"

\* Some decide call of the log returned a value that is no action.
BadReturn(log) ==
    \E k \in DOMAIN log :
        /\ log[k].op = "decide"
        /\ log[k].out \notin Actions \cup {"IndexError"}

\* C12: a step of a match in which a decide returns a value outside
\* {"beat", "still"} ends the program with ValueError and changes no history,
\* no total and no MatchResult; nothing was or is returned by Match.run or
\* Tournament.run, no further pair is played, and no step follows.
C12_ViolationAborts ==
    [][/\ BadReturn(calls') =>
            /\ pc = "round_loop"
            /\ pc' = "raised"
            /\ error' = "ValueError"
            /\ returned' = <<>>
            /\ ranked' = <<>>
            /\ UNCHANGED <<history_a, history_b, total_a, total_b, result,
                           scores, pairs_run, match_idx>>
       /\ pc # "raised"]_vars

\* A tournament ended on a protocol violation in a later round of a later
\* match of its first pair: an earlier match was completed, and nothing was
\* returned.
C12_Witness ==
    /\ mode = "tournament"
    /\ pc = "raised"
    /\ error = "ValueError"
    /\ BadReturn(calls)
    /\ match_idx >= 1
    /\ Len(result.scores_a) >= 1
    /\ Len(history_a) >= 1
    /\ returned = <<>>

\* C13: Tournament(...) on fewer than two agents raises ValueError at
\* construction: no agent is renamed or reset, Match.run is never invoked and
\* nothing is returned.
C13_SmallRosterRejected ==
    (Len(roster) < 2 /\ pc # "tournament_new") =>
        /\ pc = "raised"
        /\ error = "ValueError"
        /\ agents = roster
        /\ agent_state = [p \in 1..Len(roster) |-> AgentInit(roster[p].kind)]
        /\ calls = <<>>
        /\ pairs_run = <<>>
        /\ result = NewMatchResult
        /\ returned = <<>>
        /\ ranked = <<>>

\* Tournament(...) was called on a roster of one agent and raised.
C13_Witness ==
    /\ Len(roster) = 1
    /\ pc = "raised"
    /\ error = "ValueError"

\* What C20 says of a returned MatchResult in which side tft was played by
\* TitForTatAgent and the other side by AlwaysBeatAgent, over R rounds.
TitForTatLosesOnce(scores_tft, scores_ab, histories_tft, histories_ab, R) ==
    \A k \in 1..Cfg.num_matches :
        /\ histories_tft[k] = [r \in 1..R |-> IF r = 1 THEN "still" ELSE "beat"]
        /\ histories_ab[k] = [r \in 1..R |-> "beat"]
        /\ scores_tft[k] = Cfg.beaten + (R - 1) * Cfg.llost
        /\ scores_ab[k] = Cfg.beat + (R - 1) * Cfg.llost

\* C20: in every match of TitForTatAgent against AlwaysBeatAgent, on either
\* side, TitForTat plays "still" in round 1 and "beat" afterwards, and the
\* totals are beaten + (R-1)*llost for TitForTat and beat + (R-1)*llost for
\* AlwaysBeat, R being rounds_per_match.
C20_TitForTatVsAlwaysBeat ==
    returned # <<>> =>
        LET res == returned[1]
            R == Cfg.rounds_per_match
        IN /\ (AgentA.kind = "TitForTatAgent" /\ AgentB.kind = "AlwaysBeatAgent")
                => TitForTatLosesOnce(res.scores_a, res.scores_b,
                                      res.histories_a, res.histories_b, R)
           /\ (AgentA.kind = "AlwaysBeatAgent" /\ AgentB.kind = "TitForTatAgent")
                => TitForTatLosesOnce(res.scores_b, res.scores_a,
                                      res.histories_b, res.histories_a, R)

\* Match.run returned from the longest matches of TitForTat against
\* AlwaysBeat under main.py's default payoffs.
C20_Witness ==
    /\ returned # <<>>
    /\ AgentA.kind = "TitForTatAgent"
    /\ AgentB.kind = "AlwaysBeatAgent"
    /\ Cfg.rounds_per_match = MaxRounds
    /\ Cfg.beaten # Cfg.llost
    /\ returned[1].scores_a[1] = Cfg.beaten + (MaxRounds - 1) * Cfg.llost

\* The rounds of the current match for which decide was called: those
\* played, and the one that ended in a protocol violation.
RoundsAsked == Len(history_a) + (IF error = "ValueError" THEN 1 ELSE 0)

\* C14: in round r of a match Match.run calls decide once on agent_a, with
\* (history_a, history_b), then once on agent_b, with (history_b,
\* history_a), both histories being the actions recorded for rounds 1..r-1;
\* what the two calls return is what the round records.
C14_DecideCalls ==
    calls # <<>> =>
        /\ Len(calls) = 2 + 2 * RoundsAsked
        /\ \A r \in 1..RoundsAsked :
              LET call_a == calls[2 * r + 1]
                  call_b == calls[2 * r + 2]
                  prior_a == SubSeq(history_a, 1, r - 1)
                  prior_b == SubSeq(history_b, 1, r - 1)
              IN /\ call_a.op = "decide" /\ call_a.agent = i
                 /\ call_a.own = prior_a /\ call_a.opp = prior_b
                 /\ call_b.op = "decide" /\ call_b.agent = j
                 /\ call_b.own = prior_b /\ call_b.opp = prior_a
                 /\ r <= Len(history_a) =>
                        /\ call_a.out = history_a[r]
                        /\ call_b.out = history_b[r]

\* The last round of a match was played, and the two histories differ.
C14_Witness ==
    /\ pc = "round_loop"
    /\ Len(history_a) = MaxRounds
    /\ MaxRounds >= 2
    /\ history_a # history_b
    /\ Len(calls) = 2 + 2 * MaxRounds

\* C15: in each iteration of Match.run's loop, reset() is called once on
\* agent_a and once on agent_b, before any decide of that match, and no
\* reset() follows a decide.
C15_ResetOncePerMatch ==
    calls # <<>> =>
        /\ Len(calls) >= 2
        /\ calls[1] = ResetEntry(i)
        /\ calls[2] = ResetEntry(j)
        /\ \A k \in 3..Len(calls) : calls[k].op = "decide"
        /\ Len(result.scores_a) = match_idx

\* The last match of a pair was completed: its log holds the two resets and
\* then the decide calls of every round.
C15_Witness ==
    /\ pc = "match_loop"
    /\ match_idx = MaxMatches
    /\ MaxMatches >= 2
    /\ Len(calls) = 2 + 2 * MaxRounds

\* The fields of a class that are its structural configuration: they are
\* set at construction and are no state of a match.
StructuralFields(kind) ==
    CASE kind = "PatternDetectorAgent" -> {"pattern_length"}
      [] kind = "PatternMatchingTitForTatAgent" ->
            {"pattern_length", "min_occurrences"}
      [] kind = "TrustBuildingAgent" -> {"forgiveness"}
      [] kind = "PavlovAgent" -> {"default_action"}
      [] kind = "HybridAgent" -> {"strategies"}
      [] OTHER -> {}

Structural(kind, st) ==
    [f \in (DOMAIN st) \cap StructuralFields(kind) |-> st[f]]

\* C16: after reset(), whatever decide calls came before, every field of a
\* catalog agent has the value that construction gave it.
C16_ResetRestores ==
    call.op = "reset" => agent_state[1] = AgentInit(Agent.kind)

\* reset() was called on a GrudgeAgent that held a grudge: it holds none.
C16_Witness ==
    /\ call.op = "reset"
    /\ Agent.kind = "GrudgeAgent"
    /\ call.before.grudge
    /\ ~agent_state[1].grudge

\* C17: reset() changes neither the name of an agent nor its structural
\* configuration, and a reset() that follows a reset() changes nothing.
C17_ResetIdempotent ==
    [][call'.op = "reset" =>
          /\ agents' = agents
          /\ Structural(Agent.kind, agent_state'[1])
                 = Structural(Agent.kind, agent_state[1])
          /\ call.op = "reset" => agent_state' = agent_state]_vars

\* reset() was called on a TrustBuildingAgent that had lost trust: the
\* trust is back and forgiveness is what it was.
C17_Witness ==
    /\ call.op = "reset"
    /\ Agent.kind = "TrustBuildingAgent"
    /\ FLess(call.before.trust_level, One)
    /\ agent_state[1].trust_level = One
    /\ agent_state[1].forgiveness = call.before.forgiveness
    /\ agents[1].name = DefaultName("TrustBuildingAgent")

\* C18, as stated: every decide call on a catalog agent, on any two
\* histories, returns an action.
C18_Claim ==
    call.op = "decide" => call.out \in Actions

\* Every match recorded in a MatchResult has the histories and the totals
\* of the first one.
SameMatches(res) ==
    \A k \in 1..Len(res.scores_a) :
        /\ res.histories_a[k] = res.histories_a[1]
        /\ res.histories_b[k] = res.histories_b[1]
        /\ res.scores_a[k] = res.scores_a[1]
        /\ res.scores_b[k] = res.scores_b[1]

\* C19: between two catalog strategies that draw no random number, each
\* decide of each round has one outcome only, all matches of a call of
\* Match.run have the same histories and totals, and a second call on the
\* same pair returns a MatchResult equal to the first.
C19_Reproducible ==
    /\ (pc = "round_loop" /\ Len(history_a) < Cfg.rounds_per_match) =>
          /\ Cardinality(DecideCall(AgentA.kind, agent_state[i + 1],
                                    history_a, history_b)) = 1
          /\ Cardinality(DecideCall(AgentB.kind, agent_state[j + 1],
                                    history_b, history_a)) = 1
    /\ SameMatches(result)
    /\ Len(returned) = 2 => returned[1] = returned[2]

\* Match.run returned twice from matches of DuelRounds rounds in which
\* GrudgeAgent played both actions.
C19_Witness ==
    /\ Len(returned) = 2
    /\ Cfg.rounds_per_match = DuelRounds
    /\ AgentA.kind = "GrudgeAgent"
    /\ Len(returned[2].scores_a) = MaxMatches
    /\ MaxMatches >= 2
    /\ Range(returned[2].histories_a[MaxMatches]) = Actions

\* The strategies that never defect first.
NeverFirst ==
    {"AlwaysStillAgent", "TitForTatAgent", "ForgivingTitForTatAgent",
     "GrudgeAgent", "WinStayLoseShiftAgent", "PavlovAgent", "GradualAgent",
     "PunishmentEscalationAgent", "AdaptivePunishmentAgent",
     "RewardPunishmentAgent", "PatternDetectorAgent",
     "PatternMatchingTitForTatAgent", "AdaptiveAgent",
     "FrequencyAnalysisAgent"}

AllStill(h) == \A r \in 1..Len(h) : h[r] = "still"

\* C21: in a match between two strategies of NeverFirst, the same class
\* twice included, every round played is ("still", "still"), no call raises,
\* the running totals are wwin per round played and both totals of every
\* match recorded are rounds_per_match * wwin.
C21_MutualCooperation ==
    (AgentA.kind \in NeverFirst /\ AgentB.kind \in NeverFirst) =>
        /\ pc # "raised"
        /\ AllStill(history_a)
        /\ AllStill(history_b)
        /\ pc = "round_loop" =>
              /\ total_a = Len(history_a) * Cfg.wwin
              /\ total_b = Len(history_b) * Cfg.wwin
        /\ \A k \in 1..Len(result.scores_a) :
              /\ AllStill(result.histories_a[k])
              /\ AllStill(result.histories_b[k])
              /\ result.scores_a[k] = Cfg.rounds_per_match * Cfg.wwin
              /\ result.scores_b[k] = Cfg.rounds_per_match * Cfg.wwin

\* Match.run returned from matches of DuelRounds rounds between GrudgeAgent
\* and FrequencyAnalysisAgent, with DuelRounds * wwin for both.
C21_Witness ==
    /\ pc = "done"
    /\ AgentA.kind = "GrudgeAgent"
    /\ AgentB.kind = "FrequencyAnalysisAgent"
    /\ Cfg.rounds_per_match = DuelRounds
    /\ Len(returned[1].histories_a[1]) = DuelRounds
    /\ returned[1].scores_a[1] = DuelRounds * Cfg.wwin
    /\ returned[1].scores_b[1] = DuelRounds * Cfg.wwin

\* In a history of the class, "beat" stands in the rounds that are multiples
\* of 3 and in no other.
EveryThird(h) == \A r \in 1..Len(h) : (h[r] = "beat") <=> (r % 3 = 0)

\* C22: TwoCoopOneDefectAgent, reset at the start of a match, plays "still",
\* "still", "beat" in a cycle whatever the opponent does: in round r of the
\* match it returns "beat" exactly when r is a multiple of 3.
C22_Claim ==
    /\ AgentA.kind = "TwoCoopOneDefectAgent" => EveryThird(history_a)
    /\ AgentB.kind = "TwoCoopOneDefectAgent" => EveryThird(history_b)

\* What HybridAgent played in a match, own its history and opp the
\* opponent's: tit for tat in rounds 1..19, "beat" from round 20 on.
HybridPlays(own, opp) ==
    \A r \in 1..Len(own) :
        own[r] = IF r <= 19
                 THEN TitForTatDecide(SubSeq(own, 1, r - 1),
                                      SubSeq(opp, 1, r - 1))
                 ELSE "beat"

\* The strategy HybridAgent has selected after its decide of a round:
\* tit_for_tat up to round 19, always_beat from round 20 on, never
\* always_still.
HybridSelects(st, played) ==
    /\ st.current_strategy # "always_still"
    /\ st.rounds = played
    /\ st.current_strategy =
          IF played < 20 THEN "tit_for_tat" ELSE "always_beat"

\* The evaluation of round 20, on the 19 rounds played: whatever the
\* opponent did in the last 10 of them, always_beat is selected.
HybridRound20 ==
    \A recent \in [1..10 -> Actions] :
        LET h == [k \in 1..9 |-> "still"] \o recent
        IN evaluate_strategies(AgentInit("HybridAgent"), h, h)
               .current_strategy = "always_beat"

\* C23: within a match HybridAgent plays as TitForTatAgent in rounds 1 to 19
\* and returns "beat" in every round from round 20 on, against every
\* opponent; always_still is never selected and the selection made in round
\* 20 is always_beat, for every sequence of 10 opponent actions it is made
\* on.
C23_HybridSchedule ==
    /\ (AgentA.kind = "HybridAgent" /\ pc = "match_start") => HybridRound20
    /\ AgentA.kind = "HybridAgent" =>
          /\ HybridPlays(history_a, history_b)
          /\ pc = "round_loop" =>
                HybridSelects(agent_state[i + 1], Len(history_a))
    /\ AgentB.kind = "HybridAgent" =>
          /\ HybridPlays(history_b, history_a)
          /\ pc = "round_loop" =>
                HybridSelects(agent_state[j + 1], Len(history_b))

\* HybridAgent returned "beat" in round 20 after AlwaysStillAgent had
\* cooperated in all of the rounds before, and again in the last round.
C23_Witness ==
    /\ AgentA.kind = "HybridAgent"
    /\ AgentB.kind = "AlwaysStillAgent"
    /\ pc = "round_loop"
    /\ Len(history_a) = DuelRounds
    /\ DuelRounds >= 21
    /\ history_a[19] = "still"
    /\ history_b[19] = "still"
    /\ history_a[20] = "beat"
    /\ history_a[DuelRounds] = "beat"
    /\ agent_state[i + 1].current_strategy = "always_beat"

\* The last round of the call's arguments: the own action and the
\* opponent's.
LastRound == <<Last(history_a), Last(history_b)>>

\* decide was called on PavlovAgent with two histories that are not empty.
PavlovCalled ==
    /\ Agent.kind = "PavlovAgent"
    /\ call.op = "decide"
    /\ history_a # <<>>
    /\ history_b # <<>>

\* C24 as stated: PavlovAgent returns "still" on an empty history; otherwise
\* "still" after ("still", "still") and after (own "beat", opponent
\* "still"), "still" after ("beat", "beat"), and "beat" after (own "still",
\* opponent "beat").
C24_Claim ==
    (Agent.kind = "PavlovAgent" /\ call.op = "decide") =>
        IF history_a = <<>> \/ history_b = <<>> THEN call.out = "still"
        ELSE call.out = CASE LastRound = <<"still", "still">> -> "still"
                          [] LastRound = <<"beat", "still">> -> "still"
                          [] LastRound = <<"beat", "beat">> -> "still"
                          [] LastRound = <<"still", "beat">> -> "beat"

\* C24, amended: PavlovAgent returns "still" when either history is empty;
\* otherwise "still" after ("still", "still") and after ("beat", "beat"),
\* and "beat" after (own "beat", opponent "still") and after (own "still",
\* opponent "beat"). No field of the agent changes.
C24_PavlovTable ==
    (Agent.kind = "PavlovAgent" /\ call.op = "decide") =>
        /\ agent_state[1] = call.before
        /\ IF history_a = <<>> \/ history_b = <<>> THEN call.out = "still"
           ELSE call.out = CASE LastRound = <<"still", "still">> -> "still"
                             [] LastRound = <<"beat", "still">> -> "beat"
                             [] LastRound = <<"beat", "beat">> -> "still"
                             [] LastRound = <<"still", "beat">> -> "beat"

\* PavlovAgent returned "beat" after a round in which it had played "beat"
\* and the opponent "still".
C24_Witness ==
    /\ PavlovCalled
    /\ LastRound = <<"beat", "still">>
    /\ call.out = "beat"

\* In a history, the round after a "beat" is a "still": every defection is
\* a single one.
SingleDefections(h) ==
    \A r \in 2..Len(h) : h[r - 1] = "beat" => h[r] = "still"

\* C25: against TitForTatAgent, which answers a probe with "beat" in the
\* round after it, EscapeTigerAgent returns "beat" in the probe round only,
\* returns "still" in the round after it, and exploit_mode is never set.
C25_Claim ==
    /\ (AgentA.kind = "EscapeTigerAgent" /\ AgentB.kind = "TitForTatAgent") =>
          /\ SingleDefections(history_a)
          /\ pc = "round_loop" => ~agent_state[i + 1].exploit_mode
    /\ (AgentB.kind = "EscapeTigerAgent" /\ AgentA.kind = "TitForTatAgent") =>
          /\ SingleDefections(history_b)
          /\ pc = "round_loop" => ~agent_state[j + 1].exploit_mode

\* GradualAgent's fields st after its decide of round n of a match, own its
\* history and opp the opponent's, both of n rounds: when in round n - 1
\* the opponent played "beat" and the agent "still", the revenge counter was
\* set to the number of "beat" in the opponent's n - 1 actions, the agent
\* played "beat" and the counter went down by one.
GradualCounts(st, own, opp) ==
    LET n == Len(own)
    IN (n >= 2 /\ opp[n - 1] = "beat" /\ own[n - 1] = "still") =>
          /\ own[n] = "beat"
          /\ st.revenge_counter = Count(SubSeq(opp, 1, n - 1), "beat") - 1

\* C26: whenever the opponent played "beat" in the previous round while
\* GradualAgent had played "still", GradualAgent sets revenge_counter to the
\* number of "beat" in the opponent's history of the match, then returns
\* "beat" and decrements it.
C26_Claim ==
    /\ (AgentA.kind = "GradualAgent" /\ pc = "round_loop") =>
          GradualCounts(agent_state[i + 1], history_a, history_b)
    /\ (AgentB.kind = "GradualAgent" /\ pc = "round_loop") =>
          GradualCounts(agent_state[j + 1], history_b, history_a)

\* The streak length the specification gives for defections "beat" of the
\* opponent in rounds rounds: 3 above a rate of 0.5, 2 above 0.3, else 1.
StreakFor(defections, rounds) ==
    IF 2 * defections > rounds THEN 3
    ELSE IF 10 * defections > 3 * rounds THEN 2
    ELSE 1

\* A round of the match in which AdaptivePunishmentAgent, its fields before
\* st and after st1, started a punishment: no streak was active and the
\* opponent's last action, the last of opp, was "beat". The streak it set
\* is the one of the opponent's rate of "beat" over the rounds played.
NewPunishment(st, st1, opp) ==
    (opp # <<>> /\ Last(opp) = "beat" /\ st.punishment_streak = 0) =>
        st1.punishment_streak = StreakFor(Count(opp, "beat"), Len(opp))

\* C27: when AdaptivePunishmentAgent starts a punishment in a round of a
\* match, the streak it sets is 3, 2 or 1 by the opponent's defection rate
\* over all rounds played so far; punishment_streak stays in 0..3.
C27_Claim ==
    [][(pc = "round_loop" /\ pc' = "round_loop"
            /\ Len(history_a') = Len(history_a) + 1) =>
          /\ AgentA.kind = "AdaptivePunishmentAgent" =>
                /\ NewPunishment(agent_state[i + 1], agent_state'[i + 1],
                                 history_b)
                /\ agent_state'[i + 1].punishment_streak \in 0..3
          /\ AgentB.kind = "AdaptivePunishmentAgent" =>
                /\ NewPunishment(agent_state[j + 1], agent_state'[j + 1],
                                 history_a)
                /\ agent_state'[j + 1].punishment_streak \in 0..3]_vars

\* The last 3 actions of opp stand at an earlier position of opp too, and
\* there a "beat" follows them.
SeenBeforeBeat(opp) ==
    LET n == Len(opp)
    IN /\ n >= 4
       /\ \E x \in 1..(n - 3) :
             /\ SubSeq(opp, x, x + 2) = SubSeq(opp, n - 2, n)
             /\ opp[x + 3] = "beat"

\* What PatternDetectorAgent played in a match by the sentence of C28, own
\* its history and opp the opponent's.
DetectorPlays(own, opp) ==
    \A r \in 1..Len(own) :
        (own[r] = "beat") <=> SeenBeforeBeat(SubSeq(opp, 1, r - 1))

\* C28: PatternDetectorAgent returns "beat" exactly when the opponent's
\* last 3 actions occur at an earlier position of the opponent's history
\* followed by a "beat", and "still" in every other case.
C28_Claim ==
    /\ AgentA.kind = "PatternDetectorAgent" =>
          DetectorPlays(history_a, history_b)
    /\ AgentB.kind = "PatternDetectorAgent" =>
          DetectorPlays(history_b, history_a)

\* C29: RewardPunishmentAgent returns what TitForTatAgent returns on the
\* same two histories, "still" on an empty opponent history and the
\* opponent's last action otherwise, whatever its punishment_counter, which
\* stays in 0..5.
C29_RewardPunishmentIsTitForTat ==
    Agent.kind = "RewardPunishmentAgent" =>
        /\ agent_state[1].punishment_counter \in 0..5
        /\ call.op = "decide" =>
              /\ call.out = TitForTatDecide(history_a, history_b)
              /\ call.out = IF history_b = <<>> THEN "still"
                            ELSE Last(history_b)

\* RewardPunishmentAgent returned "still" on an opponent's "still" with its
\* counter at 5 before the call, the cap of the counter.
C29_Witness ==
    /\ Agent.kind = "RewardPunishmentAgent"
    /\ call.op = "decide"
    /\ call.before.punishment_counter = 5
    /\ history_b # <<>>
    /\ Last(history_b) = "still"
    /\ call.out = "still"
    /\ agent_state[1].punishment_counter = 4

\* What a newly constructed agent of class kind returns from
\* decide(own, opp).
FreshActions(kind, own, opp) ==
    {r.action : r \in DecideCall(kind, AgentInit(kind), own, opp)}

\* C30: on every pair of histories WinStayLoseShiftAgent and PavlovAgent
\* return the same action: what either returned from a call is what the
\* other returns on the arguments of that call, and neither changes a field.
C30_SameDecision ==
    (Agent.kind \in {"WinStayLoseShiftAgent", "PavlovAgent"}
        /\ call.op = "decide") =>
        /\ agent_state[1] = AgentInit(Agent.kind)
        /\ FreshActions("WinStayLoseShiftAgent", history_a, history_b)
              = {call.out}
        /\ FreshActions("PavlovAgent", history_a, history_b) = {call.out}

\* WinStayLoseShiftAgent shifted from "beat" to "still" after a "beat" of
\* the opponent.
C30_Witness ==
    /\ Agent.kind = "WinStayLoseShiftAgent"
    /\ call.op = "decide"
    /\ history_a # <<>>
    /\ history_b # <<>>
    /\ Last(history_a) = "beat"
    /\ Last(history_b) = "beat"
    /\ call.out = "still"

\* What GrudgeAgent played in a match, own its history and opp the
\* opponent's: "beat" in the rounds after a round in which the opponent
\* played "beat", "still" in all rounds up to and including the first such
\* round.
GrudgePlays(own, opp) ==
    \A r \in 1..Len(own) :
        (own[r] = "beat") <=> (\E q \in 1..(r - 1) : opp[q] = "beat")

\* C31: in a match GrudgeAgent returns "still" in every round up to and
\* including the round of the opponent's first "beat" and "beat" in every
\* round after it, whatever the opponent does afterwards; its grudge field
\* is set from then on.
C31_GrudgeForever ==
    /\ AgentA.kind = "GrudgeAgent" =>
          /\ GrudgePlays(history_a, history_b)
          /\ (pc = "round_loop" /\ history_a # <<>>) =>
                (agent_state[i + 1].grudge <=> Last(history_a) = "beat")
    /\ AgentB.kind = "GrudgeAgent" =>
          /\ GrudgePlays(history_b, history_a)
          /\ (pc = "round_loop" /\ history_b # <<>>) =>
                (agent_state[j + 1].grudge <=> Last(history_b) = "beat")

\* GrudgeAgent played "beat" in the last round of a match of DuelRounds
\* rounds although the opponent, after its first "beat", had played "still"
\* in the round before.
C31_Witness ==
    /\ AgentA.kind = "GrudgeAgent"
    /\ pc = "round_loop"
    /\ Len(history_a) = DuelRounds
    /\ \E q \in 1..(DuelRounds - 2) : history_b[q] = "beat"
    /\ history_b[DuelRounds - 1] = "still"
    /\ history_a[DuelRounds] = "beat"

\* What GradualForgivingAgent played in a match, own its history and opp
\* the opponent's: "beat" in the round after a round in which the opponent
\* played "beat" and the agent "still", and in the round after that one;
\* "still" in every round before which the opponent has not played "beat".
ForgivingPlays(own, opp) ==
    /\ \A r \in 2..Len(own) :
          (opp[r - 1] = "beat" /\ own[r - 1] = "still") =>
              /\ own[r] = "beat"
              /\ r + 1 <= Len(own) => own[r + 1] = "beat"
    /\ \A r \in 1..Len(own) :
          (\A q \in 1..(r - 1) : opp[q] = "still") => own[r] = "still"

\* C32: in a match, after a round in which the opponent played "beat" and
\* GradualForgivingAgent "still", the agent returns "beat" in the next two
\* rounds whatever the opponent does in the first of them; and as long as
\* the opponent has not played "beat" it returns "still".
C32_RevengeWindow ==
    /\ AgentA.kind = "GradualForgivingAgent" =>
          ForgivingPlays(history_a, history_b)
    /\ AgentB.kind = "GradualForgivingAgent" =>
          ForgivingPlays(history_b, history_a)

\* GradualForgivingAgent played "beat" twice after a "beat" of RandomAgent
\* that met its "still", RandomAgent having played "still" in between, and
\* was free to play "still" in the round after.
C32_Witness ==
    /\ AgentA.kind = "GradualForgivingAgent"
    /\ AgentB.kind = "RandomAgent"
    /\ Len(history_a) >= 4
    /\ history_a[1] = "still" /\ history_b[1] = "beat"
    /\ history_b[2] = "still"
    /\ history_a[2] = "beat" /\ history_a[3] = "beat"
    /\ history_a[4] = "still"

\* The MatchResult res with its two sides exchanged.
Mirror(res) ==
    [scores_a |-> res.scores_b, scores_b |-> res.scores_a,
     histories_a |-> res.histories_b, histories_b |-> res.histories_a]

\* C33: for two strategies x, y without randomness and a valid config,
\* Match.run(y, x) returns the MatchResult of Match.run(x, y) with the
\* histories and totals of the sides a and b exchanged.
C33_SidesSymmetric ==
    Len(returned) = 2 => returned[2] = Mirror(returned[1])

\* Both calls returned, of matches of DuelRounds rounds between two
\* different classes, with different totals for the two sides.
C33_Witness ==
    /\ Len(returned) = 2
    /\ Cfg.rounds_per_match = DuelRounds
    /\ roster[1].kind = "EscapeTigerAgent"
    /\ roster[2].kind = "GradualAgent"
    /\ agents = <<roster[2], roster[1]>>
    /\ Len(returned[1].scores_a) = MaxMatches
    /\ returned[1].scores_a[1] # returned[1].scores_b[1]
    /\ returned[2].scores_a[1] = returned[1].scores_b[1]

\* Every decide call of the current match returned "beat" or "still".
LegalCalls ==
    \A k \in 1..Len(calls) :
        calls[k].op = "decide" => calls[k].out \in Actions

\* C34: Match.run between any two strategies of the catalog never raises:
\* every decide call, made on the histories of the match, returns "beat" or
\* "still", so the legality check of match.py:130 never fails and the call
\* of Match.run returns a MatchResult.
C34_NoProtocolViolation ==
    /\ pc # "raised"
    /\ error = ""
    /\ LegalCalls
    /\ Range(history_a) \subseteq Actions
    /\ Range(history_b) \subseteq Actions
    /\ pc = "done" => Len(returned) = 1

\* Match.run returned from a match of DuelRounds rounds between HybridAgent
\* and PatternMatchingTitForTatAgent, both past their first rounds:
\* HybridAgent evaluated its strategies in round 20 and took up always_beat,
\* and both actions were played.
C34_Witness ==
    /\ pc = "done"
    /\ AgentA.kind = "HybridAgent"
    /\ AgentB.kind = "PatternMatchingTitForTatAgent"
    /\ Cfg.rounds_per_match = DuelRounds
    /\ Len(returned[1].histories_a[1]) = DuelRounds
    /\ Len(returned[1].histories_b[1]) = DuelRounds
    /\ agent_state[1].current_strategy = "always_beat"
    /\ agent_state[1].last_switch = 20
    /\ Range(returned[1].histories_a[1]) = Actions

\* What PatternMatchingTitForTatAgent played in a match, own its history
\* and opp the opponent's: in the rounds with fewer than 12 rounds of
\* history what TitForTatAgent plays, and in the later rounds that or
\* "beat".
MatcherPlays(own, opp) ==
    \A r \in 1..Len(own) :
        LET tft == TitForTatDecide(SubSeq(own, 1, r - 1),
                                   SubSeq(opp, 1, r - 1))
        IN /\ r - 1 < 12 => own[r] = tft
           /\ own[r] # tft => (own[r] = "beat" /\ tft = "still")
           /\ (r > 1 /\ opp[r - 1] = "beat") => own[r] = "beat"

\* C35: PatternMatchingTitForTatAgent differs from TitForTatAgent only by
\* returning "beat" where TitForTatAgent returns "still": it returns "beat"
\* whenever the opponent's last action is "beat", and with fewer than 12
\* rounds of history it returns what TitForTatAgent returns.
C35_OnlyExtraDefections ==
    /\ AgentA.kind = "PatternMatchingTitForTatAgent" =>
          MatcherPlays(history_a, history_b)
    /\ AgentB.kind = "PatternMatchingTitForTatAgent" =>
          MatcherPlays(history_b, history_a)

\* PatternMatchingTitForTatAgent played "beat" after a "still" of the
\* opponent, in a round with 12 or more rounds of history.
C35_Witness ==
    /\ AgentA.kind = "PatternMatchingTitForTatAgent"
    /\ \E r \in 13..Len(history_a) :
          /\ history_b[r - 1] = "still"
          /\ history_a[r] = "beat"

\* The match rate of the k-th library rhythm over the history h exceeds
\* 0.7.
RateExceeds(k, h) ==
    LET rate == check_rhythm(h, Rhythms[k]) IN 10 * rate[1] > 7 * rate[2]

\* The lengths of the prefixes of opp, among those handed to a decide call
\* that tries the rhythms, over which some library rhythm exceeds 0.7.
DetectionLengths(opp) ==
    {m \in 6..(Len(opp) - 1) :
        \E k \in 1..Len(Rhythms) : RateExceeds(k, SubSeq(opp, 1, m))}

\* The library rhythm with the highest match rate over h, the earliest of
\* the library when several have it.
BestRhythm(h) ==
    LET rate(k) == check_rhythm(h, Rhythms[k])
        best == CHOOSE k \in 1..Len(Rhythms) :
                   \A k2 \in 1..Len(Rhythms) :
                      /\ rate(k2)[1] * rate(k)[2] <= rate(k)[1] * rate(k2)[2]
                      /\ k2 < k =>
                            rate(k2)[1] * rate(k)[2] < rate(k)[1] * rate(k2)[2]
    IN Rhythms[best]

\* What RhythmDetectorAgent played and holds in a match, own its history,
\* opp the opponent's and st its fields.
RhythmHeld(own, opp, st) ==
    /\ \A r \in 1..Len(own) : r <= 6 => own[r] = "still"
    /\ IF DetectionLengths(opp) = {}
       THEN /\ st.detected_rhythm = <<>>
            /\ st.rhythm_confidence = <<0, 1>>
       ELSE LET first == CHOOSE m \in DetectionLengths(opp) :
                            \A m2 \in DetectionLengths(opp) : m <= m2
                seen == SubSeq(opp, 1, first)
            IN /\ st.detected_rhythm = <<BestRhythm(seen)>>
               /\ st.rhythm_confidence = check_rhythm(seen, BestRhythm(seen))

\* C36: RhythmDetectorAgent plays "still" in the first 6 rounds; it holds no
\* rhythm while no library rhythm exceeded a match rate of 0.7 over the
\* opponent history handed to it; from the first call in which one did it
\* holds the rhythm with the highest rate over that history, the earliest
\* of the library on ties, whatever the opponent plays afterwards, until
\* reset() at the start of the next match.
C36_RhythmKept ==
    /\ AgentA.kind = "RhythmDetectorAgent" =>
          RhythmHeld(history_a, history_b, agent_state[i + 1])
    /\ AgentB.kind = "RhythmDetectorAgent" =>
          RhythmHeld(history_b, history_a, agent_state[j + 1])

\* RhythmDetectorAgent holds a rhythm that was one of several with the
\* highest rate when it was taken, and was handed a later history over
\* which that rhythm no longer exceeds 0.7 while another rhythm does.
C36_Witness ==
    /\ AgentA.kind = "RhythmDetectorAgent"
    /\ agent_state[i + 1].detected_rhythm # <<>>
    /\ LET held == agent_state[i + 1].detected_rhythm[1]
           first == CHOOSE m \in DetectionLengths(history_b) :
                       \A m2 \in DetectionLengths(history_b) : m <= m2
           seen == SubSeq(history_b, 1, first)
       IN /\ \E k \in 1..Len(Rhythms) :
                /\ Rhythms[k] # held
                /\ check_rhythm(seen, Rhythms[k]) = check_rhythm(seen, held)
          /\ \E m \in (first + 1)..(Len(history_b) - 1) :
                LET later == SubSeq(history_b, 1, m)
                    rate == check_rhythm(later, held)
                IN /\ 10 * rate[1] <= 7 * rate[2]
                   /\ \E k \in 1..Len(Rhythms) : RateExceeds(k, later)

==============================================================================
